---------------------------- MODULE Spec2Model ----------------------------
(***************************************************************************)
(* A model of src/App.py: the transaction table, the projection of the     *)
(* table into holdings (calculate_portfolio), the summary card             *)
(* (display_summary_card), the summaries by coin and by exchange, the      *)
(* handlers that add, edit and delete transactions, the exchange rate      *)
(* (get_exchange_rate), the creation of the tables (init_bigquery_table),  *)
(* the authentication of a visitor by password or by cookie token          *)
(* (render_auth_page, validate_token) and the registration of users by     *)
(* sessions that run at the same time (create_user_in_bq).                 *)
(*                                                                         *)
(* Numbers.  The program computes in binary floating point; the model      *)
(* computes exactly, in integers:                                          *)
(*   - a quantity q stands for q * 1e-9 coins, so that the threshold       *)
(*     1e-9 of calculate_portfolio is the integer EPSILON = 1;             *)
(*   - a price p stands for the price at which one quantity unit is worth  *)
(*     p yen, so that quantity * price counts whole yen;                   *)
(*   - a percentage is a whole number of percent;                          *)
(*   - a ratio that need not be whole (the usd rate, the change            *)
(*     percentage) is a pair <<numerator, denominator>>.                   *)
(* Rounding errors of floating point are outside the model.                *)
(*                                                                         *)
(* Optional values (None in the program) are sequences of length 0 or 1.   *)
(* The four transaction kinds, Japanese strings in the program, are        *)
(* written "BUY", "SELL", "ADJUST_INCREASE" and "ADJUST_DECREASE", in the   *)
(* order of TRANSACTION_TYPES_BUY[0], TRANSACTION_TYPES_SELL[0],           *)
(* TRANSACTION_TYPES_BUY[1] and TRANSACTION_TYPES_SELL[1].                 *)
(***************************************************************************)
EXTENDS Integers, Sequences, FiniteSets, TLC

(***************************************************************************)
(* Bounds of the model.                                                    *)
(***************************************************************************)
\* The number of transactions a session adds in Spec.
MaxTransactions == 2
\* The number of rows of the table in SpecReconcile.
MaxReconciled == 4
\* The number of rows appended to the table in SpecProjection.
MaxProjected == 2
\* The number of rows of the table in SpecValue.
MaxValuedRows == 2
\* SpecForms: the number of transactions the forms store.
MaxFormRows == 2
\* SpecLedger: the number of transactions stored.
MaxLedgerRows == 3
\* SpecAuth: the number of tokens generated, and the days that pass.
MaxLogins == 2
MaxClock == 30
\* SpecRegister: the number of sessions that register users at the same time.
MaxSessions == 2

(***************************************************************************)
(* Program constants and the small sets the inputs are drawn from.         *)
(***************************************************************************)
None == <<>>
Some(x) == <<x>>
IsNone(o) == Len(o) = 0
Val(o) == o[1]

\* Variants of the two lists that leave the adjustment kinds out.
BuyOnly == {"BUY"}
SellOnly == {"SELL"}

TRANSACTION_TYPES_BUY == {"BUY", "ADJUST_INCREASE"}
TRANSACTION_TYPES_SELL == {"SELL", "ADJUST_DECREASE"}
\* The kinds the add form offers (its selectbox).
FORM_TYPES == {"BUY", "SELL"}
\* Two of the six exchanges of EXCHANGES_ORDERED.
EXCHANGES_ORDERED == {"SBIVC", "Binance"}
\* The threshold of calculate_portfolio, 1e-9, in quantity units.
EPSILON == 1

Users == {"alice", "bob"}
Coins == {"bitcoin", "ethereum"}
Keys == Coins \X EXCHANGES_ORDERED
\* The four kinds a stored transaction may have.
AllTypes == {"BUY", "ADJUST_INCREASE", "SELL", "ADJUST_DECREASE"}
\* Quantities typed into a form (number_input, min_value = 0.0).
Quantities == {1, 2}
\* The quantity of the purchases in SpecReconcile and SpecValue: above EPSILON.
ValuedQuantities == {2}
\* Days picked in a date_input; the second is the day of the session.
Dates == {1, 2}
Today == CHOOSE d \in Dates : \A e \in Dates : e <= d
\* The day a date_input offers when the form opens: datetime.now().
FormDates == {Today}
\* Prices and fees typed into a form (min_value = 0.0).
FormPrices == {5}
\* The exchange the selectbox of the add form opens with.
FormExchanges == {"SBIVC"}
FormFees == {0}

(***************************************************************************)
(* Arithmetic helpers.                                                     *)
(***************************************************************************)
Abs(x) == IF x < 0 THEN -x ELSE x

\* n / d rounded to the nearest integer, ties to even, for d > 0: what
\* Python's fixed-point formatting (f"{x:.2f}") does to the last digit.
RoundHalfEven(n, d) ==
    LET q == n \div d
        r == n - q * d
    IN  IF 2 * r < d THEN q
        ELSE IF 2 * r > d THEN q + 1
        ELSE IF q % 2 = 0 THEN q ELSE q + 1

RECURSIVE SetToSeq(_)
\* The elements of a finite set in some fixed order.
SetToSeq(S) ==
    IF S = {} THEN <<>>
    ELSE LET x == CHOOSE y \in S : TRUE IN <<x>> \o SetToSeq(S \ {x})

(***************************************************************************)
(* Market data: jpy_market_data, one optional row per coin.  A row holds   *)
(* the columns calculate_portfolio reads: name, current_price and          *)
(* price_change_percentage_24h (None when the provider gives none).        *)
(***************************************************************************)
MarketRow(name, price, pct) ==
    [name |-> name, current_price |-> price, price_change_percentage_24h |-> pct]

\* The rows the provider may return for a coin.  A change of -100 percent
\* comes with a price of 0; the other percentages divide their prices
\* exactly, so that the model's integer division is the program's division.
BitcoinRows ==
    { MarketRow("Bitcoin", 10, Some(25)),
      MarketRow("Bitcoin", 0, Some(-100)) }
EthereumRows ==
    { MarketRow("Ethereum", 3, None),
      MarketRow("Ethereum", 20, Some(-50)) }
RowsOf(c) == IF c = "bitcoin" THEN BitcoinRows ELSE EthereumRows

\* The market snapshots get_full_market_data may return: a coin is listed
\* (Some row) or not (None); main() stops when the data is empty.
MarketSnapshots ==
    { m \in [Coins -> {None} \cup {Some(r) : r \in BitcoinRows \cup EthereumRows}] :
        /\ \A c \in Coins : ~IsNone(m[c]) => Val(m[c]) \in RowsOf(c)
        /\ \E c \in Coins : ~IsNone(m[c]) }

Listed(md) == {c \in DOMAIN md : ~IsNone(md[c])}

\* A variant of dict.get that answers 1 for a missing key.
MapGetDefaultOne(m, k, default) == IF k \in DOMAIN m THEN m[k] ELSE 1

\* dict.get(k, default)
MapGet(m, k, default) == IF k \in DOMAIN m THEN m[k] ELSE default

(***************************************************************************)
(* calculate_portfolio                                                     *)
(***************************************************************************)
price_map(md) == [c \in Listed(md) |-> Val(md[c]).current_price]

\* A variant that takes the percentage off the current price:
\* current_price * (1 - pct / 100).
YesterdayPriceLinear(row) ==
    LET pct == row.price_change_percentage_24h
    IN  IF ~IsNone(pct)
        THEN (row.current_price * (100 - Val(pct))) \div 100
        ELSE row.current_price

\* current_price / (1 + pct / 100) when pct is given and 1 + pct / 100 is
\* not 0, else current_price.
YesterdayPriceOfRow(row) ==
    LET pct == row.price_change_percentage_24h
    IN  IF ~IsNone(pct) /\ 100 + Val(pct) # 0
        THEN (row.current_price * 100) \div (100 + Val(pct))
        ELSE row.current_price

\* A variant that takes the current price for the price 24 hours ago.
yesterday_price_map_current(md) == [c \in Listed(md) |-> Val(md[c]).current_price]

yesterday_price_map(md) == [c \in Listed(md) |-> YesterdayPriceOfRow(Val(md[c]))]

RowKey(row) == <<row.coin_id, row.exchange>>

\* The keys of transactions_df.groupby([coin id, exchange]).
GroupKeys(df) == {RowKey(df[i]) : i \in 1..Len(df)}

\* A variant of the sum that reads only the first row of the selection
\* (.iloc[0] in place of .sum()).
SumFirstQuantity(df, key, types) ==
    LET Selected(r) == RowKey(r) = key /\ r.transaction_type \in types
        rows == SelectSeq(df, Selected)
    IN  IF rows = <<>> THEN 0 ELSE Head(rows).quantity

RECURSIVE SumQuantity(_, _, _)
\* group[group[kind].isin(types)][quantity].sum()
SumQuantity(df, key, types) ==
    IF df = <<>> THEN 0
    ELSE (IF RowKey(Head(df)) = key /\ Head(df).transaction_type \in types
          THEN Head(df).quantity ELSE 0)
         + SumQuantity(Tail(df), key, types)

\* A variant of the test that also holds at the threshold (>= 1e-9).
IsHeldAtThreshold(current_quantity) == current_quantity >= EPSILON

\* if current_quantity > 1e-9
IsHeld(current_quantity) == current_quantity > EPSILON

EmptyResult == [portfolio |-> <<>>, total_asset_jpy |-> 0, total_change_24h_jpy |-> 0]

\* One pass of the loop body of calculate_portfolio, for the group `key`.
GroupStep(acc, df, md, key) ==
    LET coin_id == key[1]
        exchange == key[2]
        buy_quantity == SumQuantity(df, key, TRANSACTION_TYPES_BUY)
        sell_quantity == SumQuantity(df, key, TRANSACTION_TYPES_SELL)
        current_quantity == buy_quantity - sell_quantity
        price == MapGet(price_map(md), coin_id, 0)
        yesterday_price == MapGet(yesterday_price_map(md), coin_id, price)
        change_24h == price - yesterday_price
        value == current_quantity * price
        coin_name == IF coin_id \in Listed(md) THEN Val(md[coin_id]).name ELSE coin_id
    IN  IF IsHeld(current_quantity)
        THEN [portfolio |-> acc.portfolio @@
                  (key :> [coin_name |-> coin_name, exchange |-> exchange,
                           quantity |-> current_quantity, price |-> price,
                           value |-> value, coin_id |-> coin_id]),
              total_asset_jpy |-> acc.total_asset_jpy + value,
              total_change_24h_jpy |-> acc.total_change_24h_jpy
                                         + current_quantity * change_24h]
        ELSE acc

RECURSIVE GroupLoop(_, _, _, _)
GroupLoop(groups, acc, df, md) ==
    IF groups = {} THEN acc
    ELSE LET key == CHOOSE k \in groups : TRUE
         IN  GroupLoop(groups \ {key}, GroupStep(acc, df, md, key), df, md)

calculate_portfolio(df, md) ==
    IF df = <<>> THEN EmptyResult
    ELSE GroupLoop(GroupKeys(df), EmptyResult, df, md)

(***************************************************************************)
(* summarize_portfolio_by_coin and summarize_portfolio_by_exchange         *)
(***************************************************************************)
\* A variant of the aggregation that takes one value of the group ('first')
\* where the code sums.
AggFirst(portfolio, keys, column) ==
    IF keys = {} THEN 0 ELSE portfolio[CHOOSE k \in keys : TRUE][column]

RECURSIVE AggSum(_, _, _)
\* groupby(...).agg((column, 'sum')): the sum of the column over the rows
\* `keys` of the portfolio, the rows of one group.
AggSum(portfolio, keys, column) ==
    IF keys = {} THEN 0
    ELSE LET k == CHOOSE x \in keys : TRUE
         IN  portfolio[k][column] + AggSum(portfolio, keys \ {k}, column)

RECURSIVE ValueDescOrders(_)
\* sort_values(by='評価額_jpy', ascending=False): the orders of the rows
\* the sort allows, rows of one value in any order.
ValueDescOrders(rows) ==
    IF rows = {} THEN {<<>>}
    ELSE UNION { {<<r>> \o rest : rest \in ValueDescOrders(rows \ {r})} :
                 r \in {x \in rows : \A y \in rows : x.value_jpy >= y.value_jpy} }

\* summarize_portfolio_by_coin: the data frames the call may return, one
\* row per coin id with the name, the quantity and the value summed over
\* the exchanges, the number of exchanges and the 24h percentage of the
\* market data (0 when there is none); rows whose quantity is at most
\* 1e-9 are dropped.  An empty portfolio gives an empty frame.
summarize_portfolio_by_coin(portfolio, md) ==
    IF DOMAIN portfolio = {} THEN {<<>>}
    ELSE LET keys == DOMAIN portfolio
             Group(c) == {k \in keys : portfolio[k].coin_id = c}
             Pct(c) == IF c \in Listed(md) /\ ~IsNone(Val(md[c]).price_change_percentage_24h)
                       THEN Val(Val(md[c]).price_change_percentage_24h) ELSE 0
             summary == {[coin_id |-> c,
                          coin_name |-> portfolio[CHOOSE k \in Group(c) : TRUE].coin_name,
                          quantity |-> AggSum(portfolio, Group(c), "quantity"),
                          value_jpy |-> AggSum(portfolio, Group(c), "value"),
                          accounts |-> Cardinality({portfolio[k].exchange : k \in Group(c)}),
                          price_change_percentage_24h |-> Pct(c)] :
                         c \in {portfolio[k].coin_id : k \in keys}}
         IN  ValueDescOrders({r \in summary : r.quantity > EPSILON})

\* summarize_portfolio_by_exchange: the data frames the call may return,
\* one row per exchange with the value summed over the coins and the
\* number of coin names.
summarize_portfolio_by_exchange(portfolio) ==
    IF DOMAIN portfolio = {} THEN {<<>>}
    ELSE LET keys == DOMAIN portfolio
             Group(e) == {k \in keys : portfolio[k].exchange = e}
             summary == {[exchange |-> e,
                          value_jpy |-> AggSum(portfolio, Group(e), "value"),
                          coins |-> Cardinality({portfolio[k].coin_name : k \in Group(e)})] :
                         e \in {portfolio[k].exchange : k \in keys}}
         IN  ValueDescOrders(summary)

(***************************************************************************)
(* calculate_btc_value and display_summary_card                            *)
(***************************************************************************)
\* A variant without the test btc_price_jpy > 0.
calculate_btc_value_unguarded(total_asset_jpy, md) ==
    IF "bitcoin" \in Listed(md)
    THEN <<total_asset_jpy, Val(md["bitcoin"]).current_price>>
    ELSE <<0, 1>>

\* total_asset_jpy / btc_price_jpy as a ratio, 0 when bitcoin is not listed
\* (KeyError) or its price is not positive.
calculate_btc_value(total_asset_jpy, md) ==
    IF "bitcoin" \in Listed(md) /\ Val(md["bitcoin"]).current_price > 0
    THEN <<total_asset_jpy, Val(md["bitcoin"]).current_price>>
    ELSE <<0, 1>>

\* The 24h change of the total in bitcoin (spec.md, 4.2, Numeraire-denominated
\* valuation): the total in bitcoin now minus yesterday's total over
\* yesterday's bitcoin price, a ratio; None (undefined) unless yesterday's
\* bitcoin price and yesterday's total are both positive.  The price and
\* its 24h change are the ones calculate_portfolio works with.
numeraire_delta(total_asset_jpy, total_change_24h_jpy, md) ==
    LET price == MapGet(price_map(md), "bitcoin", 0)
        change_24h == price - MapGet(yesterday_price_map(md), "bitcoin", price)
        numeraire_yesterday == price - change_24h
        yesterday_total == total_asset_jpy - total_change_24h_jpy
        total_in_numeraire == calculate_btc_value(total_asset_jpy, md)
    IN  IF numeraire_yesterday > 0 /\ yesterday_total > 0
        THEN Some(<<total_in_numeraire[1] * numeraire_yesterday
                        - yesterday_total * total_in_numeraire[2],
                    total_in_numeraire[2] * numeraire_yesterday>>)
        ELSE None

\* f"{x:.2f}" of the ratio n / d times `scale`, as a count of hundredths.
Format2(n, d, scale) ==
    IF d > 0 THEN RoundHalfEven(n * scale * 100, d)
    ELSE RoundHalfEven(-(n * scale * 100), -d)

\* A variant of the card without the test yesterday_asset != 0: the
\* percentage is the quotient whatever the divisor, and no text can be
\* made of a quotient by 0.
display_summary_card_unguarded(total_asset_jpy, total_asset_btc, total_change_24h_jpy, currency, rate, is_hidden) ==
    IF is_hidden
    THEN [asset_display |-> None, change_display |-> None, pct_display |-> None,
          change_pct |-> None]
    ELSE LET yesterday_asset == total_asset_jpy - total_change_24h_jpy
             change_pct == <<total_change_24h_jpy * 100, yesterday_asset>>
         IN  [asset_display |-> Some(Format2(total_asset_jpy * rate[1], rate[2], 1)),
              change_display |-> Some(Format2(total_change_24h_jpy * rate[1], rate[2], 1)),
              pct_display |-> IF yesterday_asset = 0 THEN None
                              ELSE Some(Format2(change_pct[1], change_pct[2], 1)),
              change_pct |-> Some(change_pct)]

\* The texts of the card.  A shown amount is Some(hundredths); the mask
\* shown when the balance is hidden is None.  change_pct is the local
\* variable of that name, a ratio.
display_summary_card(total_asset_jpy, total_asset_btc, total_change_24h_jpy, currency, rate, is_hidden) ==
    IF is_hidden
    THEN [asset_display |-> None, change_display |-> None, pct_display |-> None,
          change_pct |-> None]
    ELSE LET yesterday_asset == total_asset_jpy - total_change_24h_jpy
             change_pct == IF yesterday_asset # 0
                           THEN <<total_change_24h_jpy * 100, yesterday_asset>>
                           ELSE <<0, 1>>
         IN  [asset_display |-> Some(Format2(total_asset_jpy * rate[1], rate[2], 1)),
              change_display |-> Some(Format2(total_change_24h_jpy * rate[1], rate[2], 1)),
              pct_display |-> Some(Format2(change_pct[1], change_pct[2], 1)),
              change_pct |-> Some(change_pct)]

(***************************************************************************)
(* The transactions table and the functions that query and change it.      *)
(***************************************************************************)
\* The row add_transaction_to_bq inserts.
TableRow(transaction_id, user_id, td) ==
    [transaction_id |-> transaction_id, user_id |-> user_id,
     transaction_date |-> td.transaction_date, coin_id |-> td.coin_id,
     coin_name |-> td.coin_name, exchange |-> td.exchange,
     transaction_type |-> td.transaction_type, quantity |-> td.quantity,
     price_jpy |-> td.price_jpy, fee_jpy |-> td.fee_jpy, total_jpy |-> td.total_jpy]

add_transaction_to_bq(table, transaction_id, user_id, td) ==
    Append(table, TableRow(transaction_id, user_id, td))

\* The natural key of a record (spec.md, 4.4).
NaturalKey(r) ==
    <<r.transaction_date, r.coin_id, r.exchange, r.transaction_type, r.quantity>>

\* A variant of the delete that matches by natural key: it removes every
\* row of the user that shares the natural key of the row with the id.
delete_by_natural_key(table, user_id, transaction_id) ==
    LET Target(r) == r.user_id = user_id /\ r.transaction_id = transaction_id
        targets == SelectSeq(table, Target)
        Keep(r) == ~(/\ r.user_id = user_id
                     /\ \E i \in 1..Len(targets) : NaturalKey(r) = NaturalKey(targets[i]))
    IN  SelectSeq(table, Keep)

delete_transaction_from_bq(table, user_id, transaction_id) ==
    LET Keep(r) == ~(r.user_id = user_id /\ r.transaction_id = transaction_id)
    IN  SelectSeq(table, Keep)

\* A variant whose WHERE clause names the transaction id only.
update_by_id_only(table, user_id, transaction_id, updated_data) ==
    [i \in 1..Len(table) |->
        IF table[i].transaction_id = transaction_id
        THEN [table[i] EXCEPT !.transaction_date = updated_data.transaction_date,
                              !.exchange = updated_data.exchange,
                              !.quantity = updated_data.quantity,
                              !.price_jpy = updated_data.price_jpy,
                              !.fee_jpy = updated_data.fee_jpy,
                              !.total_jpy = updated_data.total_jpy]
        ELSE table[i]]

update_transaction_in_bq(table, user_id, transaction_id, updated_data) ==
    [i \in 1..Len(table) |->
        IF table[i].user_id = user_id /\ table[i].transaction_id = transaction_id
        THEN [table[i] EXCEPT !.transaction_date = updated_data.transaction_date,
                              !.exchange = updated_data.exchange,
                              !.quantity = updated_data.quantity,
                              !.price_jpy = updated_data.price_jpy,
                              !.fee_jpy = updated_data.fee_jpy,
                              !.total_jpy = updated_data.total_jpy]
        ELSE table[i]]

\* A row of the data frame: the table row without its user_id column.  The
\* date is converted to the Asia/Tokyo zone, which names the same day for
\* the timestamps the forms write (midnight UTC).
FrameRow(r) ==
    [transaction_id |-> r.transaction_id, transaction_date |-> r.transaction_date,
     coin_id |-> r.coin_id, coin_name |-> r.coin_name, exchange |-> r.exchange,
     transaction_type |-> r.transaction_type, quantity |-> r.quantity,
     price_jpy |-> r.price_jpy, fee_jpy |-> r.fee_jpy, total_jpy |-> r.total_jpy]

\* A variant of the query without WHERE user_id = @user_id.
AllRows(table, user_id) == [i \in 1..Len(table) |-> FrameRow(table[i])]

\* The rows of the user, in table order.
UserRows(table, user_id) ==
    LET Mine(r) == r.user_id = user_id
        mine == SelectSeq(table, Mine)
    IN  [i \in 1..Len(mine) |-> FrameRow(mine[i])]

RECURSIVE DateDescOrders(_)
\* The orders of the set `rows` that ORDER BY transaction_date DESC allows:
\* rows of one date come in any order.
DateDescOrders(rows) ==
    IF rows = {} THEN {<<>>}
    ELSE UNION { {<<r>> \o rest : rest \in DateDescOrders(rows \ {r})} :
                 r \in {x \in rows : \A y \in rows : x.transaction_date >= y.transaction_date} }

\* The data frames get_transactions_from_bq may return for the user.
get_transactions_from_bq(table, user_id) ==
    LET mine == UserRows(table, user_id)
    IN  DateDescOrders({mine[i] : i \in 1..Len(mine)})

\* A variant that finds the table missing and does not create it.
init_bigquery_table_no_create(tables, name) ==
    [tables |-> tables, created |-> FALSE]

\* init_bigquery_table on the set of tables that exist: get_table raises
\* NotFound for a table that is absent, which is then created (and the
\* creation is announced by st.toast); a table that exists is left alone.
init_bigquery_table(tables, name) ==
    IF name \in tables
    THEN [tables |-> tables, created |-> FALSE]
    ELSE [tables |-> tables \cup {name}, created |-> TRUE]

\* get_transactions_from_bq on the dataset: the query of a table that is
\* absent raises NotFound, which is caught: the table is initialised and
\* an empty frame is returned.
get_transactions_from_dataset(tables, table, user_id) ==
    IF "transactions" \in tables
    THEN [frames |-> get_transactions_from_bq(table, user_id),
          tables |-> tables, created |-> FALSE]
    ELSE LET init == init_bigquery_table(tables, "transactions")
         IN  [frames |-> {<<>>}, tables |-> init.tables, created |-> init.created]

(***************************************************************************)
(* State.                                                                  *)
(***************************************************************************)
VARIABLES
    transactions,   \* the transactions table, rows in insertion order
    next_id,        \* the next transaction id uuid4 returns
    market,         \* jpy_market_data as cached by get_full_market_data
    usd_rate,       \* get_exchange_rate('usd') as cached, a ratio
    session,        \* st.session_state of each user's session
    page,           \* what render_portfolio_page last computed for each session
    last,           \* the delete button pressed last: the user and the row it belongs to
    notice,         \* the message (st.error, st.toast of a new table) on the screen of each user's session
    rate_call,      \* the last execution of get_exchange_rate: its inputs and its result
    schema,         \* the tables that exist in the dataset
    clients,        \* how get_clients ended: the value of (bq_client, cookies)
    accounts,       \* the users table, rows in insertion order
    cookie,         \* the auth_token cookie of the visitor's browser
    visitor,        \* st.session_state of the visitor's session, and the screen it shows
    clock,          \* CURRENT_TIMESTAMP, in days
    next_token,     \* the next token secrets.token_hex returns
    queried,        \* the tables the visitor's last script run sent statements to
    registration    \* create_user_in_bq in each session that registers: where the call is, and its arguments

\* The state a session that is logged in and renders its page leaves alone.
background == <<schema, clients, accounts, cookie, visitor, clock, next_token, queried,
                registration>>

vars == <<transactions, next_id, market, usd_rate, session, page, last, notice, rate_call,
          schema, clients, accounts, cookie, visitor, clock, next_token, queried,
          registration>>

(***************************************************************************)
(* The dataset, the users table and the visitor.                           *)
(***************************************************************************)
TableNames == {"users", "transactions", "watchlist"}

\* get_clients: both clients are built; or a KeyError or FileNotFoundError
\* is caught, st.error is called and (None, None) is returned; or another
\* exception leaves get_clients and ends the script at line 125.
ClientOutcomes == {"built", "none", "raised"}

\* Passwords of eight characters or more, as the register form asks for.
Passwords == {"password-a", "password-b"}

\* bcrypt.hashpw and bcrypt.checkpw: checkpw accepts exactly the password
\* the hash was made of, whatever the salt.
hash_password(password) == <<"bcrypt", password>>
verify_password(plain_password, hashed_password) ==
    hashed_password = hash_password(plain_password)

\* The row create_user_in_bq inserts.
UserRecord(user_id, password) ==
    [user_id |-> user_id, password_hash |-> hash_password(password),
     auth_token |-> None, token_expiry |-> None]

\* Both users are registered and hold no token.
Registered == <<UserRecord("alice", "password-a"), UserRecord("bob", "password-b")>>

\* The session state main() sets by default, before the first screen.  The
\* screen is "stopped" after st.stop() at the top of main(), "auth" when the
\* login page is shown and "portfolio" when the pages of a user are; error
\* tells whether the screen shows an error.
Closed == [authenticated |-> FALSE, user_id |-> None, screen |-> "closed", error |-> FALSE]

\* SELECT * FROM users WHERE user_id = @user_id
WhereUserId(users, user_id) == SelectSeq(users, LAMBDA r : r.user_id = user_id)

\* get_user_from_bq: the values the call may return, None when no row has
\* the user id or there is no bq_client, results[0] otherwise: any of the
\* rows that have the user id, as the query states no order.
get_user_from_bq(c, users, user_id) ==
    LET results == WhereUserId(users, user_id)
    IN  IF c = "built" /\ results # <<>>
        THEN {Some(results[i]) : i \in 1..Len(results)}
        ELSE {None}

\* insert_rows_json(TABLE_USERS_FULL_ID, [user_data])
insert_user(users, user_id, password) == Append(users, UserRecord(user_id, password))

\* create_user_in_bq, when no statement of another session comes between
\* its query and its insert: the users table after the call.
create_user_in_bq(c, users, user_id, password) ==
    IF c # "built" \/ get_user_from_bq(c, users, user_id) # {None} THEN users
    ELSE insert_user(users, user_id, password)

\* timedelta(days=30)
TOKEN_DAYS == 30

\* generate_and_store_token: the users table after UPDATE ... SET
\* auth_token, token_expiry WHERE user_id = @user_id.
generate_and_store_token(users, user_id, token, now) ==
    [i \in 1..Len(users) |->
        IF users[i].user_id = user_id
        THEN [users[i] EXCEPT !.auth_token = Some(token),
                              !.token_expiry = Some(now + TOKEN_DAYS)]
        ELSE users[i]]

\* A variant whose UPDATE matches no row.
clear_token_matching_nothing(users, user_id) == users

\* clear_token: the users table after UPDATE ... SET auth_token = NULL,
\* token_expiry = NULL WHERE user_id = @user_id.
clear_token(users, user_id) ==
    [i \in 1..Len(users) |->
        IF users[i].user_id = user_id
        THEN [users[i] EXCEPT !.auth_token = None, !.token_expiry = None]
        ELSE users[i]]

\* A variant whose query leaves out token_expiry > CURRENT_TIMESTAMP().
validate_token_ignoring_expiry(c, token, users, now, outcome) ==
    LET matching == {i \in 1..Len(users) : users[i].auth_token = Some(token)}
    IN  IF c # "built" \/ outcome # "done" \/ matching = {} THEN {None}
        ELSE {Some(users[i].user_id) : i \in matching}

\* validate_token: the values the call may return, None or the user id of
\* a row whose auth_token is the token and whose token_expiry lies in the
\* future (results[0] of the rows that match).  A query that raises gives
\* None.
validate_token(c, token, users, now, outcome) ==
    LET matching == {i \in 1..Len(users) :
                        /\ users[i].auth_token = Some(token)
                        /\ Val(users[i].token_expiry) > now}
    IN  IF c # "built" \/ outcome # "done" \/ matching = {} THEN {None}
        ELSE {Some(users[i].user_id) : i \in matching}

\* A variant of main() that goes on without the clients.
GoesOn(c) == FALSE

\* main(): if not bq_client or not cookies: st.stop().  A get_clients that
\* raised has ended the script before main() is called.
Stops(c) == c # "built"

\* The sessions that register users at the same time.
Sessions == 1..MaxSessions

\* A session in which create_user_in_bq is not being executed and was not
\* executed yet.
NotRegistering == [pc |-> "idle", user_id |-> None, password |-> None, created |-> FALSE]

\* The dataset of a deployment in use, and a visitor who has not opened
\* the page.
Installed ==
    /\ registration = [s \in Sessions |-> NotRegistering]
    /\ schema = TableNames
    /\ clients = "built"
    /\ accounts = Registered
    /\ cookie = None
    /\ visitor = Closed
    /\ clock = 0
    /\ next_token = 1
    /\ queried = {}

(***************************************************************************)
(* get_exchange_rate.  The answer of cg_client.get_price is an exception,  *)
(* or a dictionary of the bitcoin quotes that holds a price for none, some *)
(* or all of the currencies asked for.                                     *)
(***************************************************************************)
ProviderFailure == [raised |-> TRUE, prices |-> <<>>]
Quote(prices) == [raised |-> FALSE, prices |-> prices]

\* The prices of one bitcoin the provider may quote.
QuotedPrices == {0, 1, 150}

\* The currencies get_exchange_rate is called for.
TargetCurrencies == {"jpy", "JPY", "usd", "USD"}

ProviderResponses ==
    {ProviderFailure} \cup
    {Quote(p) : p \in UNION {[S -> QuotedPrices] : S \in SUBSET {"jpy", "usd"}}}

\* str.lower on the currencies asked for.
Lower(s) == IF s = "JPY" THEN "jpy" ELSE IF s = "USD" THEN "usd" ELSE s

\* A variant that lets the division by a zero quote through as rate 0.
get_exchange_rate_unguarded(target_currency, response) ==
    IF Lower(target_currency) = "jpy"
    THEN [rate |-> <<1, 1>>, warned |-> FALSE, queried |-> FALSE]
    ELSE IF response.raised
              \/ Lower(target_currency) \notin DOMAIN response.prices
              \/ "jpy" \notin DOMAIN response.prices
         THEN [rate |-> <<1, 1>>, warned |-> TRUE, queried |-> TRUE]
         ELSE [rate |-> <<response.prices[Lower(target_currency)], response.prices["jpy"]>>,
               warned |-> FALSE, queried |-> TRUE]

\* A variant that queries the provider for the reference currency too.
get_exchange_rate_always_queries(target_currency, response) ==
    IF response.raised
          \/ Lower(target_currency) \notin DOMAIN response.prices
          \/ "jpy" \notin DOMAIN response.prices
          \/ response.prices["jpy"] = 0
    THEN [rate |-> <<1, 1>>, warned |-> TRUE, queried |-> TRUE]
    ELSE [rate |-> <<response.prices[Lower(target_currency)], response.prices["jpy"]>>,
          warned |-> FALSE, queried |-> TRUE]

\* get_exchange_rate: rate is the ratio <<numerator, denominator>> returned,
\* warned tells whether st.warning was called, queried whether get_price was.
\* A missing key (KeyError) and a zero jpy quote (ZeroDivisionError) are
\* caught by `except Exception` like an exception of the provider.
get_exchange_rate(target_currency, response) ==
    IF Lower(target_currency) = "jpy"
    THEN [rate |-> <<1, 1>>, warned |-> FALSE, queried |-> FALSE]
    ELSE IF response.raised
              \/ Lower(target_currency) \notin DOMAIN response.prices
              \/ "jpy" \notin DOMAIN response.prices
              \/ response.prices["jpy"] = 0
         THEN [rate |-> <<1, 1>>, warned |-> TRUE, queried |-> TRUE]
         ELSE [rate |-> <<response.prices[Lower(target_currency)], response.prices["jpy"]>>,
               warned |-> FALSE, queried |-> TRUE]

\* The record of one execution of get_exchange_rate.
RateCall(target_currency, response) ==
    [target_currency |-> target_currency, response |-> response,
     result |-> get_exchange_rate(target_currency, response)]

\* A quote of 150 yen to the dollar.
UsdQuote == Quote([c \in {"jpy", "usd"} |-> IF c = "jpy" THEN 150 ELSE 1])

\* The answers of the provider in the sessions of SpecValue.
ValuedResponses == {ProviderFailure, UsdQuote}

\* The rates get_exchange_rate('usd') may return: a quote ratio, or 1.0.
Rates == {get_exchange_rate("usd", r).rate : r \in ValuedResponses}

InitialSession == [editing_transaction_id |-> None, balance_hidden |-> FALSE, currency |-> "jpy"]

\* A variant that leaves the amounts in yen whatever the currency.
current_rate_identity(sess, usd) == <<1, 1>>

\* main(): current_rate = usd_rate if current_currency == 'usd' else 1.0
current_rate(sess, usd) == IF sess.currency = "usd" THEN usd ELSE <<1, 1>>

\* render_portfolio_page on the data frame df.
PageOf(df, md, usd, sess) ==
    LET result == calculate_portfolio(df, md)
        total_asset_btc == calculate_btc_value(result.total_asset_jpy, md)
    IN  [portfolio |-> result.portfolio,
         total_asset_jpy |-> result.total_asset_jpy,
         total_change_jpy |-> result.total_change_24h_jpy,
         total_asset_btc |-> total_asset_btc,
         summary_df |-> summarize_portfolio_by_coin(result.portfolio, md),
         summary_exchange_df |-> summarize_portfolio_by_exchange(result.portfolio),
         card |-> display_summary_card(result.total_asset_jpy, total_asset_btc, result.total_change_24h_jpy, sess.currency, current_rate(sess, usd), sess.balance_hidden),
         history |-> {df[i] : i \in 1..Len(df)}]

\* The pages render_portfolio_page may compute for the user.
render_portfolio_page(table, user_id, md, usd, sess) ==
    {PageOf(df, md, usd, sess) : df \in get_transactions_from_bq(table, user_id)}

\* st.rerun() in the session of user u: the script runs again and renders
\* the page from the state the handler leaves.
Render(u) ==
    /\ \E pg \in render_portfolio_page(transactions', u, market', usd_rate', session'[u]) :
           page' = [page EXCEPT ![u] = pg]
    /\ notice' = [notice EXCEPT ![u] = None]
    /\ UNCHANGED background

\* A run that finds the exchange rate in the cache of st.cache_data.
Rerun(u) ==
    /\ Render(u)
    /\ UNCHANGED rate_call

\* The value of `last` before any delete.
NoRow == [none |-> TRUE]

(***************************************************************************)
(* Handlers.  Each ends with st.rerun(), which renders the page again.     *)
(***************************************************************************)
\* The ways a statement sent to the store ends: the job is done, the job
\* ends with errors, or the client raises an exception.
StoreOutcomes == {"done", "errors", "raised"}
FailedOutcomes == StoreOutcomes \ {"done"}

\* A variant that returns True whatever the store answered.
StoreCallOptimistic(outcome, before, after) ==
    [returned |-> TRUE, table |-> IF outcome = "done" THEN after ELSE before,
     reported |-> outcome # "done"]

\* The try blocks of add_transaction_to_bq, update_transaction_in_bq and
\* delete_transaction_from_bq: the value returned, the table the statement
\* leaves (`after` when it was done, `before` when it failed) and whether
\* st.error was called.
StoreCall(outcome, before, after) ==
    IF outcome = "done"
    THEN [returned |-> TRUE, table |-> after, reported |-> FALSE]
    ELSE [returned |-> FALSE, table |-> before, reported |-> TRUE]

\* What a handler does with the value the store function returned: on True
\* it sets the session state and reruns the script; on False the run goes
\* on to its end, with the page it has rendered and the error message.
Completed(u, call, session_on_success) ==
    IF call.returned
    THEN /\ session' = session_on_success
         /\ Rerun(u)
    ELSE /\ UNCHANGED <<session, page, rate_call, background>>
         /\ notice' = [notice EXCEPT ![u] = IF call.reported THEN Some("error") ELSE None]

\* A variant of the widget without its lower bound.
number_input_unbounded(value, min_value) == TRUE

\* st.number_input(min_value=...): the widget takes no value below min_value.
number_input(value, min_value) == value >= min_value

\* display_add_transaction_form: the submit button, and the way the INSERT
\* ends.  The id of an INSERT that failed is stored nowhere, so that the
\* next uuid4 may as well be the same.
SubmitTransaction(u, date, coin, type, exch, qty, price, fee, outcome) ==
    /\ coin \in Listed(market)
    /\ type \in FORM_TYPES
    /\ number_input(qty, 0) /\ number_input(price, 0) /\ number_input(fee, 0)
    /\ UNCHANGED <<market, usd_rate, last>>
    /\ LET transaction == [transaction_date |-> date, coin_id |-> coin,
                           coin_name |-> Val(market[coin]).name, exchange |-> exch,
                           transaction_type |-> type, quantity |-> qty,
                           price_jpy |-> price, fee_jpy |-> fee,
                           total_jpy |-> qty * price]
           call == StoreCall(outcome, transactions,
                             add_transaction_to_bq(transactions, next_id, u, transaction))
       IN  /\ transactions' = call.table
           /\ next_id' = IF call.returned THEN next_id + 1 ELSE next_id
           /\ Completed(u, call, session)

\* The submit button when the INSERT is done.
AddTransaction(u, date, coin, type, exch, qty, price, fee) ==
    SubmitTransaction(u, date, coin, type, exch, qty, price, fee, "done")

\* display_transaction_history: the edit button of a row that is shown.
EditStart(u, id) ==
    /\ \E r \in page[u].history : r.transaction_id = id
    /\ session[u].editing_transaction_id # Some(id)
    /\ session' = [session EXCEPT ![u].editing_transaction_id = Some(id)]
    /\ UNCHANGED <<transactions, next_id, market, usd_rate, last>>
    /\ Rerun(u)

\* display_transaction_history: the save button of the edit form, and the
\* way the UPDATE ends.
SaveEdit(u, date, exch, qty, price, fee, outcome) ==
    /\ ~IsNone(session[u].editing_transaction_id)
    /\ number_input(qty, 0) /\ number_input(price, 0) /\ number_input(fee, 0)
    /\ UNCHANGED <<next_id, market, usd_rate, last>>
    /\ LET id == Val(session[u].editing_transaction_id)
           updated_data == [transaction_date |-> date, exchange |-> exch,
                            quantity |-> qty, price_jpy |-> price,
                            fee_jpy |-> fee, total_jpy |-> qty * price]
           call == StoreCall(outcome, transactions,
                             update_transaction_in_bq(transactions, u, id, updated_data))
       IN  /\ \E r \in page[u].history : r.transaction_id = id
           /\ transactions' = call.table
           /\ Completed(u, call, [session EXCEPT ![u].editing_transaction_id = None])

\* The save button when the UPDATE is done.
EditSave(u, date, exch, qty, price, fee) ==
    SaveEdit(u, date, exch, qty, price, fee, "done")

\* display_transaction_history: the cancel button of the edit form.
EditCancel(u) ==
    /\ ~IsNone(session[u].editing_transaction_id)
    /\ \E r \in page[u].history : r.transaction_id = Val(session[u].editing_transaction_id)
    /\ session' = [session EXCEPT ![u].editing_transaction_id = None]
    /\ UNCHANGED <<transactions, next_id, market, usd_rate, last>>
    /\ Rerun(u)

\* display_transaction_history: the delete button of a row that is shown
\* and is not being edited.
PressDelete(u, id, outcome) ==
    /\ \E r \in page[u].history : r.transaction_id = id
    /\ session[u].editing_transaction_id # Some(id)
    /\ UNCHANGED <<next_id, market, usd_rate>>
    /\ LET call == StoreCall(outcome, transactions,
                             delete_transaction_from_bq(transactions, u, id))
       IN  /\ transactions' = call.table
           /\ last' = IF call.returned
                      THEN [op |-> "delete", user |-> u,
                            row |-> CHOOSE r \in page[u].history : r.transaction_id = id]
                      ELSE last
           /\ Completed(u, call, session)

\* The delete button when the DELETE is done.
DeleteTransaction(u, id) == PressDelete(u, id, "done")

\* render_portfolio_page: the button that hides or shows the balance.
ToggleHidden(u) ==
    /\ session' = [session EXCEPT ![u].balance_hidden = ~session[u].balance_hidden]
    /\ UNCHANGED <<transactions, next_id, market, usd_rate, last>>
    /\ Rerun(u)

\* render_portfolio_page: the button that switches between jpy and usd.
ToggleCurrency(u) ==
    /\ session' = [session EXCEPT ![u].currency =
                       IF session[u].currency = "jpy" THEN "usd" ELSE "jpy"]
    /\ UNCHANGED <<transactions, next_id, market, usd_rate, last>>
    /\ Rerun(u)

\* render_portfolio_page: the refresh button clears the caches, so main()
\* fetches the market data and the usd rate again.
RefreshData(u, md, response) ==
    /\ md \in MarketSnapshots
    /\ market' = md
    /\ rate_call' = RateCall("usd", response)
    /\ usd_rate' = rate_call'.result.rate
    /\ UNCHANGED <<transactions, next_id, session, last>>
    /\ Render(u)

(***************************************************************************)
(* The Reconciliation Engine (spec.md, 4.3): the user edits the quantities *)
(* of the displayed holdings, and one adjustment transaction is appended   *)
(* for each pair whose quantity changed by more than EPSILON.              *)
(***************************************************************************)
\* Quantities typed into the displayed holdings.
EditedQuantities == {0, 1, 4}

\* The adjustment transaction for the pair `key`, whose quantity changes by diff.
AdjustmentFor(key, coin_name, diff, now) ==
    [transaction_date |-> now, coin_id |-> key[1], coin_name |-> coin_name,
     exchange |-> key[2],
     transaction_type |-> IF diff > 0 THEN "ADJUST_INCREASE" ELSE "ADJUST_DECREASE",
     quantity |-> Abs(diff), price_jpy |-> 0, fee_jpy |-> 0, total_jpy |-> 0]

\* The pairs of the join whose quantity changed by more than EPSILON.
ChangedPairs(previous, edited) ==
    {k \in DOMAIN previous \cap DOMAIN edited :
        Abs(edited[k] - previous[k].quantity) > EPSILON}

RECURSIVE AppendAdjustments(_, _, _, _, _, _, _)
AppendAdjustments(table, id, u, keys, previous, edited, now) ==
    IF keys = <<>> THEN table
    ELSE LET k == Head(keys)
             td == AdjustmentFor(k, previous[k].coin_name,
                                 edited[k] - previous[k].quantity, now)
         IN  AppendAdjustments(add_transaction_to_bq(table, id, u, td), id + 1, u,
                               Tail(keys), previous, edited, now)

Reconcile(u, edited, now) ==
    LET previous == page[u].portfolio
        changed == ChangedPairs(previous, edited)
    IN  /\ DOMAIN previous # {}
        /\ DOMAIN edited = DOMAIN previous
        /\ transactions' = AppendAdjustments(transactions, next_id, u, SetToSeq(changed),
                                             previous, edited, now)
        /\ next_id' = next_id + Cardinality(changed)
        /\ UNCHANGED <<market, usd_rate, session, last>>
        /\ Rerun(u)

(***************************************************************************)
(* Calls of the functions with inputs drawn from bounded sets.             *)
(***************************************************************************)
\* add_transaction_to_bq called with a transaction of any kind, for any
\* coin, listed or not; the page is then rendered from the table.
StoreAppend(u, date, coin, type, exch, qty) ==
    /\ LET transaction == [transaction_date |-> date, coin_id |-> coin,
                           coin_name |-> coin, exchange |-> exch,
                           transaction_type |-> type, quantity |-> qty,
                           price_jpy |-> 0, fee_jpy |-> 0, total_jpy |-> 0]
       IN  transactions' = add_transaction_to_bq(transactions, next_id, u, transaction)
    /\ next_id' = next_id + 1
    /\ UNCHANGED <<market, usd_rate, session, last>>
    /\ Rerun(u)

(***************************************************************************)
(* Specifications.                                                         *)
(***************************************************************************)
\* The page of a session that has rendered an empty table.
FirstPage(md, usd) == PageOf(<<>>, md, usd, InitialSession)

\* The state main() leaves apart from the table and the page: the rate
\* fetched from the answer of the provider, and no message on the screen.
Started(response) ==
    /\ rate_call = RateCall("usd", response)
    /\ usd_rate = rate_call.result.rate
    /\ session = [u \in Users |-> InitialSession]
    /\ notice = [u \in Users |-> None]
    /\ last = [op |-> "none", user |-> "alice", row |-> NoRow]

\* The market of the sessions of Spec: bitcoin is listed, ethereum is not.
OpsMarket == [c \in Coins |-> IF c = "bitcoin" THEN Some(MarketRow("Bitcoin", 10, Some(25))) ELSE None]

\* A row another user stored before the session starts.
StoredBefore ==
    TableRow(0, "bob", [transaction_date |-> 1, coin_id |-> "bitcoin", coin_name |-> "Bitcoin",
                        exchange |-> "SBIVC", transaction_type |-> "BUY", quantity |-> 2,
                        price_jpy |-> 5, fee_jpy |-> 0, total_jpy |-> 10])

InitWith(tables, md, response) ==
    /\ transactions \in tables
    /\ next_id = 1
    /\ market = md
    /\ Started(response)
    /\ Installed
    /\ page = [u \in Users |-> FirstPage(md, usd_rate)]

\* The users whose sessions act.
Actors == {"alice"}

\* Spec: a session adds, edits and deletes transactions; the table may hold
\* a row of another user from the start.
Init ==
    InitWith({<<>>, <<StoredBefore>>}, OpsMarket, UsdQuote)

\* The submit of the add form, with inputs drawn from the small sets.
SubmitAddForm(u) ==
    \E date \in FormDates, coin \in Coins, type \in FORM_TYPES, exch \in FormExchanges, qty \in Quantities, price \in FormPrices, fee \in FormFees :
        AddTransaction(u, date, coin, type, exch, qty, price, fee)

Next ==
    \E u \in Actors :
        \/ next_id <= MaxTransactions /\ SubmitAddForm(u)
        \/ \E id \in 1..MaxTransactions : EditStart(u, id)
        \/ \E date \in FormDates, exch \in EXCHANGES_ORDERED, qty \in Quantities, price \in FormPrices, fee \in FormFees :
              EditSave(u, date, exch, qty, price, fee)
        \/ EditCancel(u)
        \/ \E id \in 1..MaxTransactions : DeleteTransaction(u, id)

Spec == Init /\ [][Next]_vars

\* SpecReconcile: a session buys bitcoin and edits the displayed holdings.
NextReconcile ==
    \E u \in Actors :
        \/ \E exch \in EXCHANGES_ORDERED, qty \in ValuedQuantities :
              /\ Len(transactions) < MaxReconciled
              /\ AddTransaction(u, Today, "bitcoin", "BUY", exch, qty, 5, 0)
        \/ \E edited \in [DOMAIN page[u].portfolio -> EditedQuantities] :
              /\ Len(transactions) + Cardinality(ChangedPairs(page[u].portfolio, edited)) <= MaxReconciled
              /\ Reconcile(u, edited, Today)

SpecReconcile == Init /\ [][NextReconcile]_vars

\* SpecProjection: calculate_portfolio on the tables add_transaction_to_bq
\* builds from transactions of every kind.
BothListed == [c \in Coins |-> IF c = "bitcoin" THEN Some(MarketRow("Bitcoin", 10, Some(25))) ELSE Some(MarketRow("Ethereum", 3, None))]

\* A row the user stored in an earlier session.
HeldBefore ==
    TableRow(0, "alice", [transaction_date |-> 1, coin_id |-> "bitcoin", coin_name |-> "Bitcoin",
                          exchange |-> "SBIVC", transaction_type |-> "BUY", quantity |-> 2,
                          price_jpy |-> 5, fee_jpy |-> 0, total_jpy |-> 10])

InitProjection ==
    /\ transactions \in {<<>>, <<HeldBefore>>}
    /\ next_id = 1
    /\ market = BothListed
    /\ Started(UsdQuote)
    /\ Installed
    /\ page = [u \in Users |->
                 IF u \in Actors
                 THEN CHOOSE pg \in render_portfolio_page(transactions, u, BothListed, usd_rate, InitialSession) : TRUE
                 ELSE FirstPage(BothListed, usd_rate)]

\* The pairs the appended rows are for: two exchanges of one coin, and two
\* coins of one exchange.
ProjectedKeys == {<<"bitcoin", "SBIVC">>, <<"bitcoin", "Binance">>, <<"ethereum", "SBIVC">>}

NextProjection ==
    \E u \in Actors, key \in ProjectedKeys, type \in AllTypes, qty \in Quantities :
        /\ next_id <= MaxProjected
        /\ StoreAppend(u, Today, key[1], type, key[2], qty)

SpecProjection == InitProjection /\ [][NextProjection]_vars

\* SpecValue: the valuation of the holdings a session buys and the summary
\* card, over the market snapshots and the display settings.
InitValue == \E md \in MarketSnapshots, response \in ValuedResponses : InitWith({<<>>}, md, response)

NextValue ==
    \E u \in Actors :
        \/ \E coin \in Coins, exch \in EXCHANGES_ORDERED, qty \in ValuedQuantities, price \in FormPrices, fee \in FormFees :
              /\ Len(transactions) < MaxValuedRows
              /\ AddTransaction(u, Today, coin, "BUY", exch, qty, price, fee)
        \/ ToggleHidden(u)
        \/ ToggleCurrency(u)
        \/ \E md \in MarketSnapshots, response \in ValuedResponses : RefreshData(u, md, response)

SpecValue == InitValue /\ [][NextValue]_vars

\* render_portfolio_page called for user u on the dataset as it is: the
\* rows are queried, the portfolio is computed and the page is shown.
RenderPortfolioPage(u) ==
    LET query == get_transactions_from_dataset(schema, transactions, u)
    IN  /\ schema' = query.tables
        /\ \E df \in query.frames :
               page' = [page EXCEPT ![u] = PageOf(df, market, usd_rate, session[u])]
        /\ notice' = [notice EXCEPT ![u] = IF query.created THEN Some("created") ELSE None]
        /\ UNCHANGED <<transactions, next_id, market, usd_rate, session, last, rate_call,
                       clients, accounts, cookie, visitor, clock, next_token, queried,
                   registration>>

\* The transactions table is deleted from the dataset, with its rows.
DropTable ==
    /\ "transactions" \in schema
    /\ schema' = schema \ {"transactions"}
    /\ transactions' = <<>>
    /\ UNCHANGED <<next_id, market, usd_rate, session, page, last, notice, rate_call,
                   clients, accounts, cookie, visitor, clock, next_token, queried,
                   registration>>

\* SpecLedger: the page is rendered on a dataset whose transactions table
\* exists or not; an INSERT into a table that does not exist raises.
InitLedger ==
    /\ InitWith({<<>>}, OpsMarket, UsdQuote)

NextLedger ==
    \/ \E u \in Actors : RenderPortfolioPage(u)
    \/ DropTable
    \/ \E u \in Actors, type \in FORM_TYPES, qty \in Quantities :
          /\ next_id <= MaxLedgerRows
          /\ SubmitTransaction(u, Today, "bitcoin", type, "SBIVC", qty, 5, 0,
                               IF "transactions" \in schema THEN "done" ELSE "raised")

SpecLedger == InitLedger /\ [][NextLedger]_vars

(***************************************************************************)
(* The visitor's session: main() up to the page it shows, the login page   *)
(* and the logout button.                                                  *)
(***************************************************************************)
\* The state of the portfolio pages that the steps of the visitor leave alone.
portfolio_state == <<transactions, next_id, market, usd_rate, session, last, rate_call>>

\* The tables statements are sent to: none without a bq_client, as every
\* function that queries returns at once then.
Sent(c, tables) == IF c = "built" THEN tables ELSE {}

\* main() from line 856 on, in a session logged in as user_id: the tables
\* of the transactions and of the watchlist are initialised and the pages
\* of the user are rendered.
ShowPortfolio(user_id) ==
    /\ schema' = init_bigquery_table(init_bigquery_table(schema, "transactions").tables,
                                     "watchlist").tables
    /\ \E pg \in render_portfolio_page(transactions, user_id, market, usd_rate, session[user_id]) :
           page' = [page EXCEPT ![user_id] = pg]
    /\ notice' = [notice EXCEPT ![user_id] = None]

\* main() up to line 854 in a session that is not logged in and stays so:
\* the users table is initialised and the login page is shown.
ShowAuthPage ==
    /\ schema' = IF clients = "built" THEN init_bigquery_table(schema, "users").tables ELSE schema
    /\ UNCHANGED <<page, notice>>

\* A run of the script in the visitor's session (the page is loaded, or
\* loaded again).  `outcome` is the way the query of validate_token ends.
OpenPage(outcome) ==
    /\ UNCHANGED <<registration, portfolio_state, clients, accounts, clock, next_token>>
    /\ IF Stops(clients)
       THEN /\ visitor' = [visitor EXCEPT !.screen = "stopped", !.error = TRUE]
            /\ queried' = {}
            /\ UNCHANGED <<schema, cookie, page, notice>>
       ELSE LET has_token == ~visitor.authenticated /\ ~IsNone(cookie)
            IN  \E uid \in (IF has_token
                            THEN validate_token(clients, Val(cookie), accounts, clock, outcome)
                            ELSE {None}) :
                    LET authenticated == visitor.authenticated \/ ~IsNone(uid)
                        user_id == IF visitor.authenticated THEN visitor.user_id ELSE uid
                    IN  /\ cookie' = IF has_token /\ IsNone(uid) THEN None ELSE cookie
                        /\ visitor' = [authenticated |-> authenticated, user_id |-> user_id,
                                       screen |-> IF authenticated THEN "portfolio" ELSE "auth",
                                       error |-> FALSE]
                        /\ queried' = Sent(clients,
                                           (IF has_token THEN {"users"} ELSE {}) \cup
                                           (IF authenticated THEN {"transactions", "watchlist"}
                                            ELSE {"users"}))
                        /\ IF authenticated THEN ShowPortfolio(Val(user_id)) ELSE ShowAuthPage

\* The ids typed into the login form: the users, and one nobody registered.
LoginIds == Users \cup {"carol"}

\* render_auth_page: the login form is submitted.  On success the token is
\* stored and put into the cookie, and the rerun shows the portfolio.
Login(user_id, password) ==
    /\ visitor.screen = "auth"
    /\ UNCHANGED <<registration, portfolio_state, clients, clock>>
    /\ \E user_data \in get_user_from_bq(clients, accounts, user_id) :
           IF ~IsNone(user_data) /\ verify_password(password, Val(user_data).password_hash)
           THEN /\ next_token <= MaxLogins
                /\ accounts' = generate_and_store_token(accounts, user_id, next_token, clock)
                /\ next_token' = next_token + 1
                /\ cookie' = Some(next_token)
                /\ visitor' = [authenticated |-> TRUE, user_id |-> Some(user_id),
                               screen |-> "portfolio", error |-> FALSE]
                /\ queried' = {"users", "transactions", "watchlist"}
                /\ ShowPortfolio(user_id)
           ELSE /\ visitor' = [visitor EXCEPT !.error = TRUE]
                /\ queried' = {"users"}
                /\ UNCHANGED <<accounts, next_token, cookie, schema, page, notice>>

\* render_auth_page: the register form is submitted with passwords of
\* eight characters or more.
Register(new_user_id, new_password, confirm_password) ==
    /\ visitor.screen = "auth"
    /\ UNCHANGED <<registration, portfolio_state, clients, clock, next_token, cookie, schema, page, notice>>
    /\ IF new_password # confirm_password
       THEN /\ visitor' = [visitor EXCEPT !.error = TRUE]
            /\ queried' = {}
            /\ UNCHANGED accounts
       ELSE /\ accounts' = create_user_in_bq(clients, accounts, new_user_id, new_password)
            /\ visitor' = [visitor EXCEPT !.error = (accounts' = accounts)]
            /\ queried' = {"users"}

\* main(): the logout button.  The token is cleared, the cookie deleted,
\* the session state emptied, and the rerun shows the login page.
Logout ==
    /\ visitor.screen = "portfolio"
    /\ accounts' = clear_token(accounts, Val(visitor.user_id))
    /\ cookie' = None
    /\ visitor' = [Closed EXCEPT !.screen = "auth"]
    /\ queried' = {"users"}
    /\ UNCHANGED <<registration, portfolio_state, clients, clock, next_token>>
    /\ ShowAuthPage

\* The days that pass between two steps.
DaysPassed == {15}

Tick(days) ==
    /\ clock < MaxClock
    /\ clock' = clock + days
    /\ UNCHANGED <<registration, portfolio_state, page, notice, schema, clients, accounts, cookie, visitor,
                   next_token, queried>>

\* The user logs in with another browser: a new token replaces the one
\* stored, and the cookie of the visitor's browser is as it was.
OtherDeviceLogin(user_id) ==
    /\ clients = "built"
    /\ get_user_from_bq(clients, accounts, user_id) # {None}
    /\ next_token <= MaxLogins
    /\ accounts' = generate_and_store_token(accounts, user_id, next_token, clock)
    /\ next_token' = next_token + 1
    /\ UNCHANGED <<registration, portfolio_state, page, notice, schema, clients, cookie, visitor, clock, queried>>

\* SpecAuth: a visitor opens the page of a deployment whose clients were
\* built or not.  The user alice is registered and may have logged in
\* with this browser before (token 0, valid for 30 days, in the cookie or
\* replaced since); bob is registered or not.
LoggedInBefore ==
    [UserRecord("alice", "password-a") EXCEPT !.auth_token = Some(0), !.token_expiry = Some(TOKEN_DAYS)]

InitAuth ==
    /\ transactions = <<>>
    /\ next_id = 1
    /\ market = OpsMarket
    /\ Started(UsdQuote)
    /\ page = [u \in Users |-> FirstPage(OpsMarket, usd_rate)]
    /\ schema \in {TableNames, {"users"}}
    /\ clients \in ClientOutcomes
    /\ accounts \in {<<a>> \o b : a \in {UserRecord("alice", "password-a"), LoggedInBefore},
                                  b \in {<<>>, <<UserRecord("bob", "password-b")>>}}
    /\ cookie \in {None, Some(0)}
    /\ visitor = Closed
    /\ clock = 0
    /\ next_token = 1
    /\ queried = {}
    /\ registration = [s \in Sessions |-> NotRegistering]

NextAuth ==
    \/ \E outcome \in {"done", "raised"} : OpenPage(outcome)
    \/ \E user_id \in LoginIds, password \in Passwords : Login(user_id, password)
    \/ \E new_user_id \in Users, new_password \in Passwords, confirm_password \in Passwords :
          Register(new_user_id, new_password, confirm_password)
    \/ Logout
    \/ \E days \in DaysPassed : Tick(days)
    \/ \E user_id \in Users : OtherDeviceLogin(user_id)

SpecAuth == InitAuth /\ [][NextAuth]_vars

(***************************************************************************)
(* Sessions that submit the register form at the same time.  Each call of  *)
(* create_user_in_bq sends two statements, the SELECT of get_user_from_bq  *)
(* and the insert; the statements of other sessions may come between them. *)
(***************************************************************************)
\* What the steps of create_user_in_bq leave alone.
registration_frame ==
    <<portfolio_state, page, notice, schema, clients, cookie, visitor, clock, next_token, queried>>

\* create_user_in_bq, lines 148 to 151, in session s: the SELECT of
\* get_user_from_bq is answered.  When it finds a row st.error is called
\* and False is returned.
CheckUserId(s, user_id, password) ==
    /\ registration[s].pc # "checked"
    /\ clients = "built"
    /\ registration' = [registration EXCEPT ![s] =
           IF get_user_from_bq(clients, accounts, user_id) # {None}
           THEN [pc |-> "returned", user_id |-> Some(user_id), password |-> Some(password),
                 created |-> FALSE]
           ELSE [pc |-> "checked", user_id |-> Some(user_id), password |-> Some(password),
                 created |-> FALSE]]
    /\ UNCHANGED <<accounts, registration_frame>>

\* create_user_in_bq, lines 153 to 162, in session s: the row is inserted
\* and `not errors` is returned.  insert_rows_json returns the errors of
\* an insert that failed.
InsertUser(s, outcome) ==
    /\ registration[s].pc = "checked"
    /\ accounts' = IF outcome = "done"
                   THEN insert_user(accounts, Val(registration[s].user_id),
                                    Val(registration[s].password))
                   ELSE accounts
    /\ registration' = [registration EXCEPT ![s].pc = "returned",
                                            ![s].created = (outcome = "done")]
    /\ UNCHANGED registration_frame

\* SpecRegister: sessions register alice and bob in a deployment whose
\* users table is empty or holds alice.
InitRegister ==
    /\ transactions = <<>>
    /\ next_id = 1
    /\ market = OpsMarket
    /\ Started(UsdQuote)
    /\ page = [u \in Users |-> FirstPage(OpsMarket, usd_rate)]
    /\ schema = TableNames
    /\ clients = "built"
    /\ accounts \in {<<>>, <<UserRecord("alice", "password-a")>>}
    /\ cookie = None
    /\ visitor = Closed
    /\ clock = 0
    /\ next_token = 1
    /\ queried = {}
    /\ registration = [s \in Sessions |-> NotRegistering]

NextRegister ==
    \/ \E s \in Sessions, user_id \in Users, password \in Passwords :
          CheckUserId(s, user_id, password)
    \/ \E s \in Sessions, outcome \in {"done", "errors"} : InsertUser(s, outcome)

SpecRegister == InitRegister /\ [][NextRegister]_vars

\* SpecForms: the forms with any number typed into the quantity, and the
\* statements they send ending in any of the ways a statement can end.
TypedQuantities == {-1, 0, 2}

InitForms == InitWith({<<StoredBefore>>}, OpsMarket, UsdQuote)

NextForms ==
    \E u \in Actors :
        \/ \E outcome \in StoreOutcomes, type \in FORM_TYPES, exch \in FormExchanges, qty \in TypedQuantities, price \in FormPrices, fee \in FormFees :
              /\ next_id <= MaxFormRows
              /\ SubmitTransaction(u, Today, "bitcoin", type, exch, qty, price, fee, outcome)
        \/ \E id \in 1..MaxFormRows : EditStart(u, id)
        \/ \E outcome \in StoreOutcomes, exch \in EXCHANGES_ORDERED, qty \in TypedQuantities, price \in FormPrices, fee \in FormFees :
              SaveEdit(u, Today, exch, qty, price, fee, outcome)
        \/ EditCancel(u)
        \/ \E outcome \in StoreOutcomes, id \in 1..MaxFormRows : PressDelete(u, id, outcome)

SpecForms == InitForms /\ [][NextForms]_vars

\* get_exchange_rate called for the currency `target_currency` when its
\* result is not in the cache: the body runs against the answer the provider
\* would give.  The cache is keyed by the argument, so that only a call for
\* 'usd' replaces the rate main() reads.
CallExchangeRate(target_currency, response) ==
    /\ rate_call' = RateCall(target_currency, response)
    /\ usd_rate' = IF target_currency = "usd" THEN rate_call'.result.rate ELSE usd_rate
    /\ UNCHANGED <<transactions, next_id, market, session, page, last, notice, background>>

\* SpecRate: the exchange rate over the answers of the provider, in a
\* session that switches the display currency and refreshes the data.
InitRate == \E response \in ProviderResponses : InitWith({<<>>}, OpsMarket, response)

NextRate ==
    \/ \E target_currency \in TargetCurrencies, response \in ProviderResponses :
          CallExchangeRate(target_currency, response)
    \/ \E u \in Actors :
          \/ ToggleCurrency(u)
          \/ \E response \in ProviderResponses : RefreshData(u, market, response)

SpecRate == InitRate /\ [][NextRate]_vars

(***************************************************************************)
(* Properties.  Their right-hand sides are written from the statements,    *)
(* over the table, and do not use the operators of calculate_portfolio.    *)
(***************************************************************************)
RECURSIVE NetOf(_, _, _)
\* The quantities of the additive kinds minus those of the subtractive
\* kinds, over the rows of the table that user u stored for the pair k.
NetOf(table, u, k) ==
    IF table = <<>> THEN 0
    ELSE LET r == Head(table)
             signed == IF r.transaction_type \in {"BUY", "ADJUST_INCREASE"} THEN r.quantity
                       ELSE IF r.transaction_type \in {"SELL", "ADJUST_DECREASE"} THEN -r.quantity
                       ELSE 0
         IN  (IF r.user_id = u /\ <<r.coin_id, r.exchange>> = k THEN signed ELSE 0)
             + NetOf(Tail(table), u, k)

\* The pairs user u holds, with their quantities.
Holdings(table, u) ==
    [k \in {x \in Keys : NetOf(table, u, x) > EPSILON} |-> NetOf(table, u, k)]

QuantitiesOf(portfolio) == [k \in DOMAIN portfolio |-> portfolio[k].quantity]

\* The quantity a portfolio gives for the pair k: 0 when it has no holding.
ProjectedQuantity(portfolio, k) ==
    IF k \in DOMAIN portfolio THEN portfolio[k].quantity ELSE 0

\* The current price of a coin in yen, 0 when the market data has no row for it.
PriceNow(md, c) == IF c \in Listed(md) THEN Val(md[c]).current_price ELSE 0

\* The price changes the rows of the model can stand for.
PriceChanges == -100..100

\* The current price minus the price 24 hours ago: the x with
\* x = price - price / (1 + pct / 100), i.e. x * (100 + pct) = price * pct.
\* It is 0 when the market data gives no row or no percentage, and when the
\* percentage is -100, for which no price 24 hours ago is defined.
Change24h(md, c) ==
    IF c \notin Listed(md) THEN 0
    ELSE LET row == Val(md[c])
             pct == row.price_change_percentage_24h
         IN  IF IsNone(pct) THEN 0
             ELSE IF Val(pct) = -100 THEN 0
             ELSE CHOOSE x \in PriceChanges : x * (100 + Val(pct)) = row.current_price * Val(pct)

RECURSIVE ValueOfHoldings(_, _, _)
\* The sum of quantity * current price over the holdings `keys` of the portfolio.
ValueOfHoldings(portfolio, keys, md) ==
    IF keys = {} THEN 0
    ELSE LET k == CHOOSE x \in keys : TRUE
         IN  portfolio[k].quantity * PriceNow(md, k[1])
             + ValueOfHoldings(portfolio, keys \ {k}, md)

RECURSIVE ChangeOfHoldings(_, _, _)
\* The sum of quantity * 24h price change over the holdings `keys` of the portfolio.
ChangeOfHoldings(portfolio, keys, md) ==
    IF keys = {} THEN 0
    ELSE LET k == CHOOSE x \in keys : TRUE
         IN  portfolio[k].quantity * Change24h(md, k[1])
             + ChangeOfHoldings(portfolio, keys \ {k}, md)

\* The rate the amounts of user u's card are shown at.
DisplayRate(u) == IF session[u].currency = "usd" THEN usd_rate ELSE <<1, 1>>

\* h hundredths is the amount n / d written with two decimals: no other
\* count of hundredths is nearer to n / d (d > 0).
IsAmountInHundredths(h, n, d) == 2 * Abs(h * d - n * 100) <= d

(***************************************************************************)
(* C1.  For every table and every (coin id, exchange) pair,                *)
(* calculate_portfolio reports as the quantity held the sum of the         *)
(* quantities of the additive kinds minus the sum of those of the          *)
(* subtractive kinds, and a pair whose net quantity is at most EPSILON,    *)
(* a negative one included, is absent from the portfolio.  It holds for    *)
(* every data frame the query may return.  Checked under SpecProjection.   *)
(***************************************************************************)
C1_ProjectedQuantity ==
    \A u \in Actors :
        \A df \in get_transactions_from_bq(transactions, u) :
            QuantitiesOf(calculate_portfolio(df, market).portfolio) = Holdings(transactions, u)

\* One pair is held, one is oversold and one has exactly EPSILON.
C1_Witness ==
    \E k1, k2, k3 \in Keys :
        /\ NetOf(transactions, "alice", k1) > EPSILON
        /\ k1 \in DOMAIN page["alice"].portfolio
        /\ NetOf(transactions, "alice", k2) < 0
        /\ k2 \notin DOMAIN page["alice"].portfolio
        /\ NetOf(transactions, "alice", k3) = EPSILON
        /\ k3 \notin DOMAIN page["alice"].portfolio

(***************************************************************************)
(* C2.  The Reconciliation Engine of spec.md, 4.3.  When the user edits    *)
(* the displayed holdings, then for each pair whose edited quantity        *)
(* differs from the displayed one by more than EPSILON exactly one         *)
(* transaction is appended, of kind ADJUST_INCREASE if the edited quantity *)
(* is larger and ADJUST_DECREASE otherwise, with quantity |edited -        *)
(* previous| and price, fee and total 0; no transaction is appended for    *)
(* any other pair; and the projection of the table afterwards gives the    *)
(* edited quantity for the pair, to within EPSILON (a pair without holding *)
(* has quantity 0).  Checked under SpecReconcile.                          *)
(***************************************************************************)
Reconciled(u, edited) ==
    LET previous == page[u].portfolio
        n == Len(transactions)
        added == SubSeq(transactions', n + 1, Len(transactions'))
    IN  /\ Len(transactions') >= n
        /\ SubSeq(transactions', 1, n) = transactions
        /\ \A i \in 1..Len(added) : <<added[i].coin_id, added[i].exchange>> \in DOMAIN previous
        /\ \A k \in DOMAIN previous :
              LET diff == edited[k] - previous[k].quantity
                  mine == {i \in 1..Len(added) : <<added[i].coin_id, added[i].exchange>> = k}
              IN  IF Abs(diff) > EPSILON
                  THEN /\ Cardinality(mine) = 1
                       /\ \A i \in mine :
                             /\ added[i].user_id = u
                             /\ added[i].transaction_type =
                                   IF edited[k] > previous[k].quantity
                                   THEN "ADJUST_INCREASE" ELSE "ADJUST_DECREASE"
                             /\ added[i].quantity = Abs(diff)
                             /\ added[i].price_jpy = 0
                             /\ added[i].fee_jpy = 0
                             /\ added[i].total_jpy = 0
                       /\ Abs(ProjectedQuantity(page'[u].portfolio, k) - edited[k]) <= EPSILON
                  ELSE mine = {}

C2_OneAdjustmentPerChangedPair ==
    [][\A u \in Actors :
          \A edited \in [DOMAIN page[u].portfolio -> EditedQuantities] :
              Reconcile(u, edited, Today) => Reconciled(u, edited)]_vars

\* Two pairs were edited, one up and one down, and the page shows the
\* edited quantity of the pair edited up.
C2_Witness ==
    \E i, j \in 1..Len(transactions) :
        /\ transactions[i].transaction_type = "ADJUST_INCREASE"
        /\ transactions[j].transaction_type = "ADJUST_DECREASE"
        /\ transactions[i].exchange # transactions[j].exchange
        /\ transactions[i].price_jpy = 0
        /\ ProjectedQuantity(page["alice"].portfolio, <<transactions[i].coin_id, transactions[i].exchange>>) \in EditedQuantities

(***************************************************************************)
(* C3.  The total value calculate_portfolio returns is the sum, over the   *)
(* holdings it emits, of quantity * current price of the coin in yen; and  *)
(* the total the summary card shows, when the balance is shown, is that    *)
(* total times the display rate r (1 for yen), written with the two        *)
(* decimals the card prints.  Checked under SpecValue.                     *)
(***************************************************************************)
C3_ValuationLinear ==
    \A u \in Actors :
        LET pg == page[u]
            r == DisplayRate(u)
        IN  /\ pg.total_asset_jpy = ValueOfHoldings(pg.portfolio, DOMAIN pg.portfolio, market)
            /\ ~session[u].balance_hidden =>
                  /\ ~IsNone(pg.card.asset_display)
                  /\ IsAmountInHundredths(Val(pg.card.asset_display), pg.total_asset_jpy * r[1], r[2])
            /\ (~session[u].balance_hidden /\ r = <<1, 1>>) =>
                  Val(pg.card.asset_display) = pg.total_asset_jpy * 100

\* Two holdings of different coins are valued and the card shows their
\* total in dollars.
C3_Witness ==
    /\ ~session["alice"].balance_hidden
    /\ session["alice"].currency = "usd"
    /\ usd_rate = <<1, 150>>
    /\ \E k1, k2 \in DOMAIN page["alice"].portfolio :
          /\ k1[1] # k2[1]
          /\ page["alice"].portfolio[k1].value > 0
          /\ page["alice"].portfolio[k2].value > 0
    /\ Val(page["alice"].card.asset_display) > 0

(***************************************************************************)
(* C4.  The 24h total change calculate_portfolio returns is the sum, over  *)
(* the holdings it emits, of quantity * (current price - price 24 hours    *)
(* ago) in yen, for every combination of holdings and market data.         *)
(* Checked under SpecValue.                                                *)
(***************************************************************************)
C4_TotalChange ==
    \A u \in Actors :
        page[u].total_change_jpy
            = ChangeOfHoldings(page[u].portfolio, DOMAIN page[u].portfolio, market)

\* A coin that rose and a coin that fell are both held.
C4_Witness ==
    /\ \E k1, k2 \in DOMAIN page["alice"].portfolio :
          /\ Change24h(market, k1[1]) > 0
          /\ Change24h(market, k2[1]) < 0
    /\ page["alice"].total_change_jpy # 0

YesterdayTotalNotNegative ==
    \A u \in Actors : page[u].total_asset_jpy - page[u].total_change_jpy >= 0

(***************************************************************************)
(* C6.  A pair the user holds (net quantity above EPSILON) whose coin has  *)
(* no row in the market data is emitted with its quantity, at price 0 and  *)
(* value 0, and adds nothing to the total value and to the 24h total       *)
(* change: the totals are those of the other holdings.  Checked under      *)
(* SpecValue.                                                              *)
(***************************************************************************)
C6_UnlistedHolding ==
    \A u \in Actors :
        \A k \in Keys :
            (k[1] \notin Listed(market) /\ NetOf(transactions, u, k) > EPSILON) =>
                LET pf == page[u].portfolio
                IN  /\ k \in DOMAIN pf
                    /\ pf[k].quantity = NetOf(transactions, u, k)
                    /\ pf[k].price = 0
                    /\ pf[k].value = 0
                    /\ page[u].total_asset_jpy = ValueOfHoldings(pf, DOMAIN pf \ {k}, market)
                    /\ page[u].total_change_jpy = ChangeOfHoldings(pf, DOMAIN pf \ {k}, market)

\* A held coin left the market data while another held coin is priced.
C6_Witness ==
    \E k1, k2 \in DOMAIN page["alice"].portfolio :
        /\ k1[1] \notin Listed(market)
        /\ page["alice"].portfolio[k1].price = 0
        /\ k2[1] \in Listed(market)
        /\ page["alice"].portfolio[k2].value > 0
        /\ page["alice"].total_change_jpy # 0

(***************************************************************************)
(* C7.  When the last two rows appended to the table are an                *)
(* ADJUST_INCREASE of quantity X and then an ADJUST_DECREASE of the same   *)
(* quantity X for the same pair, the portfolio is the portfolio of the     *)
(* table without the two rows: the holding of the pair (its presence and   *)
(* its quantity) and every other holding are as before.  Checked under     *)
(* SpecProjection.                                                         *)
(***************************************************************************)
EndsWithAdjustRoundTrip(table, u) ==
    /\ Len(table) >= 2
    /\ LET inc == table[Len(table) - 1]
           dec == table[Len(table)]
       IN  /\ inc.user_id = u
           /\ dec.user_id = u
           /\ inc.transaction_type = "ADJUST_INCREASE"
           /\ dec.transaction_type = "ADJUST_DECREASE"
           /\ inc.coin_id = dec.coin_id
           /\ inc.exchange = dec.exchange
           /\ inc.quantity = dec.quantity

C7_AdjustRoundTrip ==
    \A u \in Actors :
        EndsWithAdjustRoundTrip(transactions, u) =>
            \A df \in get_transactions_from_bq(SubSeq(transactions, 1, Len(transactions) - 2), u) :
                page[u].portfolio = calculate_portfolio(df, market).portfolio

\* The round trip was made on a pair that had a holding before.
C7_Witness ==
    /\ Len(transactions) = 3
    /\ EndsWithAdjustRoundTrip(transactions, "alice")
    /\ <<transactions[3].coin_id, transactions[3].exchange>> \in DOMAIN page["alice"].portfolio
    /\ <<transactions[1].coin_id, transactions[1].exchange>> = <<transactions[3].coin_id, transactions[3].exchange>>

(***************************************************************************)
(* C8.  The result of calculate_portfolio (the holdings, their            *)
(* quantities, the total value and the 24h total change) is the same for   *)
(* every order of the same rows, and the same whatever dates the rows      *)
(* carry, equal dates included.  Checked under SpecProjection.             *)
(***************************************************************************)
C8_OrderAndDateInvariant ==
    \A u \in Actors :
        LET mine == UserRows(transactions, u)
            n == Len(mine)
        IN  /\ \A p \in Permutations(1..n) :
                  calculate_portfolio([i \in 1..n |-> mine[p[i]]], market)
                      = calculate_portfolio(mine, market)
            /\ \A d \in [1..n -> Dates] :
                  calculate_portfolio([i \in 1..n |-> [mine[i] EXCEPT !.transaction_date = d[i]]], market)
                      = calculate_portfolio(mine, market)

\* Three rows, two of them of one pair, of opposite kinds and different
\* quantities, on the same date.
C8_Witness ==
    /\ Len(transactions) = 3
    /\ DOMAIN page["alice"].portfolio # {}
    /\ \E i, j \in 1..3 :
          /\ transactions[i].coin_id = transactions[j].coin_id
          /\ transactions[i].exchange = transactions[j].exchange
          /\ transactions[i].transaction_type \in {"BUY", "ADJUST_INCREASE"}
          /\ transactions[j].transaction_type \in {"SELL", "ADJUST_DECREASE"}
          /\ transactions[i].quantity # transactions[j].quantity
          /\ transactions[i].transaction_date = transactions[j].transaction_date

(***************************************************************************)
(* C9.  After any sequence of adds, updates and deletes, the holdings of   *)
(* the page rendered next are the projection of exactly the transactions   *)
(* stored for that user at that moment: nothing of an earlier render and   *)
(* nothing of another user's rows is in them.  Checked under Spec.         *)
(***************************************************************************)
C9_HoldingsOfStoredTransactions ==
    \A u \in Actors : QuantitiesOf(page[u].portfolio) = Holdings(transactions, u)

\* A row was deleted, the user still holds something and the table holds a
\* row of another user.
C9_Witness ==
    /\ last.op = "delete"
    /\ DOMAIN page["alice"].portfolio # {}
    /\ \E i \in 1..Len(transactions) : transactions[i].user_id = "bob"
    /\ \E i \in 1..Len(transactions) :
          transactions[i].user_id = "alice" /\ transactions[i].exchange = "Binance"

(***************************************************************************)
(* C10.  A delete removes exactly the stored record that has the user's    *)
(* id and the transaction id of the row, and an update changes exactly     *)
(* that record: every other record, one with an identical natural key      *)
(* (date, coin id, exchange, kind, quantity) included, stays as it is.     *)
(* Checked under Spec.                                                     *)
(***************************************************************************)
IsRecord(r, u, id) == r.user_id = u /\ r.transaction_id = id

DeletedOnly(u, id) ==
    /\ Len(transactions') = Len(transactions) - 1
    /\ \A j \in 1..Len(transactions') : ~IsRecord(transactions'[j], u, id)
    /\ \A i \in 1..Len(transactions) :
          ~IsRecord(transactions[i], u, id) =>
              \E j \in 1..Len(transactions') : transactions'[j] = transactions[i]

UpdatedOnly(u, id, date, exch, qty, price, fee) ==
    /\ Len(transactions') = Len(transactions)
    /\ \A i \in 1..Len(transactions) :
          IF IsRecord(transactions[i], u, id)
          THEN transactions'[i] = [transactions[i] EXCEPT !.transaction_date = date,
                                                            !.exchange = exch,
                                                            !.quantity = qty,
                                                            !.price_jpy = price,
                                                            !.fee_jpy = fee,
                                                            !.total_jpy = qty * price]
          ELSE transactions'[i] = transactions[i]

C10_OnlyTheIdentifiedRecord ==
    [][\A u \in Actors :
          /\ \A id \in 1..MaxTransactions :
                DeleteTransaction(u, id) => DeletedOnly(u, id)
          /\ \A date \in FormDates, exch \in EXCHANGES_ORDERED, qty \in Quantities, price \in FormPrices, fee \in FormFees :
                EditSave(u, date, exch, qty, price, fee) =>
                    UpdatedOnly(u, Val(session[u].editing_transaction_id), date, exch, qty, price, fee)]_vars

\* The stored records of the user that have the natural key of the row r.
StoredWithKeyOf(table, u, r) ==
    {i \in 1..Len(table) : table[i].user_id = u /\ NaturalKey(table[i]) = NaturalKey(r)}

\* The stored record the user's row with the transaction id is.
RecordOf(u, id) ==
    transactions[CHOOSE i \in 1..Len(transactions) : IsRecord(transactions[i], u, id)]

\* One of two records with an identical natural key was deleted, and the
\* other is still stored.
C10_Witness ==
    /\ last.op = "delete"
    /\ StoredWithKeyOf(transactions, last.user, last.row) # {}

\* The statement as made: a delete leaves no stored record with the natural
\* key of the deleted row, and an update applies the changes to every
\* stored record that has the natural key of the edited row.
C10_EveryMatchingRecord ==
    [][\A u \in Actors :
          /\ \A id \in 1..MaxTransactions :
                DeleteTransaction(u, id) =>
                    StoredWithKeyOf(transactions', u, RecordOf(u, id)) = {}
          /\ \A date \in FormDates, exch \in EXCHANGES_ORDERED, qty \in Quantities, price \in FormPrices, fee \in FormFees :
                EditSave(u, date, exch, qty, price, fee) =>
                    \A i \in StoredWithKeyOf(transactions, u, RecordOf(u, Val(session[u].editing_transaction_id))) :
                        /\ transactions'[i].transaction_date = date
                        /\ transactions'[i].exchange = exch
                        /\ transactions'[i].quantity = qty]_vars

(***************************************************************************)
(* C14, C15: the exchange rate.                                            *)
(***************************************************************************)
\* The fetch of the call fails: the provider raises, or its answer lacks the
\* quote of bitcoin in the currency asked for or in yen, or quotes zero yen.
IsReferenceCurrency(c) == c \in {"jpy", "JPY"}

\* The currency the provider names the quote by.
QuotedAs(c) == IF c \in {"usd", "USD"} THEN "usd" ELSE "jpy"

FetchFails(call) ==
    \/ call.response.raised
    \/ ~({QuotedAs(call.target_currency), "jpy"} \subseteq DOMAIN call.response.prices)
    \/ call.response.prices["jpy"] = 0

\* C14: whenever get_exchange_rate is called for a currency other than the
\* reference currency and the fetch fails for any reason (the provider raises,
\* a key is missing, the yen quote is zero), the call returns the rate 1.0
\* and emits a warning; the rate main() reads is then 1.0.
C14_FailedFetchGivesOne ==
    (~IsReferenceCurrency(rate_call.target_currency) /\ FetchFails(rate_call))
        => /\ rate_call.result.rate = <<1, 1>>
           /\ rate_call.result.warned
           /\ rate_call.target_currency = "usd" => usd_rate = <<1, 1>>

\* A session that shows dollars after the provider quoted zero yen.
C14_Witness ==
    /\ rate_call.target_currency = "usd"
    /\ ~rate_call.response.raised
    /\ DOMAIN rate_call.response.prices = {"jpy", "usd"}
    /\ rate_call.response.prices["jpy"] = 0
    /\ rate_call.response.prices["usd"] = 150
    /\ rate_call.result.warned
    /\ usd_rate = <<1, 1>>
    /\ session["alice"].currency = "usd"

\* C15: a call for the reference currency returns exactly 1.0 and does not
\* query the provider; a call for another currency whose fetch succeeds
\* returns the bitcoin quote in that currency divided by the bitcoin quote
\* in yen, without a warning.
C15_RateIsQuoteRatio ==
    LET result == rate_call.result
        prices == rate_call.response.prices
    IN  /\ IsReferenceCurrency(rate_call.target_currency)
            => result.rate = <<1, 1>> /\ ~result.queried /\ ~result.warned
        /\ (~IsReferenceCurrency(rate_call.target_currency) /\ ~FetchFails(rate_call))
            => /\ result.queried /\ ~result.warned
               /\ result.rate[2] # 0
               /\ result.rate[1] * prices["jpy"] = prices[QuotedAs(rate_call.target_currency)] * result.rate[2]
               /\ rate_call.target_currency = "usd" => usd_rate = result.rate

\* The rate of 150 yen to the dollar is in the cache, and a call for the
\* reference currency then returns without a query.
C15_Witness ==
    /\ usd_rate = <<1, 150>>
    /\ session["alice"].currency = "usd"
    /\ rate_call.target_currency = "jpy"
    /\ ~rate_call.result.queried
    /\ rate_call.result.rate = <<1, 1>>

(***************************************************************************)
(* C16: the total in bitcoin.                                              *)
(***************************************************************************)
\* C16: the total in bitcoin the page computes is the total in yen divided
\* by the price of bitcoin when that price is positive, and 0 when the
\* price is zero or bitcoin is not in the market data; its divisor is never
\* zero.
C16_BtcValueGuarded ==
    \A u \in Actors :
        LET btc == page[u].total_asset_btc
            price == PriceNow(market, "bitcoin")
        IN  /\ btc[2] # 0
            /\ price > 0 => btc[1] * price = page[u].total_asset_jpy * btc[2]
            /\ price <= 0 => btc[1] = 0

\* Ethereum worth 40 yen is held while bitcoin is quoted at 0.
C16_Witness ==
    /\ "bitcoin" \in Listed(market)
    /\ Val(market["bitcoin"]).current_price = 0
    /\ page["alice"].total_asset_jpy = 40
    /\ page["alice"].total_asset_btc = <<0, 1>>

(***************************************************************************)
(* C17: the 24h change of the total in bitcoin.                            *)
(***************************************************************************)
\* The 24h change in bitcoin of the totals user u's page shows.
DeltaNumeraire(u) ==
    numeraire_delta(page[u].total_asset_jpy, page[u].total_change_jpy, market)

\* C17: when yesterday's bitcoin price (price minus 24h change) and
\* yesterday's total (total minus 24h change of the total) are both
\* positive, the 24h change in bitcoin is the total in bitcoin minus
\* yesterday's total divided by yesterday's bitcoin price; when either is
\* not positive the change is undefined.
C17_NumeraireDelta ==
    \A u \in Actors :
        LET numeraireYesterday == PriceNow(market, "bitcoin") - Change24h(market, "bitcoin")
            yesterdayTotal == page[u].total_asset_jpy - page[u].total_change_jpy
            totalInNumeraire == page[u].total_asset_btc
            delta == DeltaNumeraire(u)
        IN  IF numeraireYesterday > 0 /\ yesterdayTotal > 0
            THEN /\ ~IsNone(delta)
                 /\ Val(delta)[2] # 0
                 /\ totalInNumeraire[2] # 0
                 \* delta = totalInNumeraire - yesterdayTotal / numeraireYesterday
                 /\ Val(delta)[1] * totalInNumeraire[2] * numeraireYesterday
                        = (totalInNumeraire[1] * numeraireYesterday
                              - yesterdayTotal * totalInNumeraire[2]) * Val(delta)[2]
            ELSE IsNone(delta)

\* Ethereum bought for 40 yen was worth 80 yen yesterday, bitcoin cost 8 yen
\* yesterday and costs 10 now: 4 bitcoin now, 10 yesterday, a change of -6.
C17_Witness ==
    /\ page["alice"].total_asset_jpy = 40
    /\ page["alice"].total_change_jpy = -40
    /\ PriceNow(market, "bitcoin") = 10
    /\ ~IsNone(DeltaNumeraire("alice"))
    /\ Val(DeltaNumeraire("alice"))[1] = -6 * Val(DeltaNumeraire("alice"))[2]

(***************************************************************************)
(* C19: what a delete and an update leave alone.                           *)
(***************************************************************************)
\* The records of the table that do not have both the user id and the
\* transaction id, in the order of the table.
OtherRecords(table, u, id) ==
    LET Other(r) == r.user_id # u \/ r.transaction_id # id
    IN  SelectSeq(table, Other)

\* The fields an update does not write.
Identity(r) ==
    <<r.transaction_id, r.user_id, r.coin_id, r.coin_name, r.transaction_type>>

DeleteFrame(before, after, u, id) ==
    OtherRecords(after, u, id) = OtherRecords(before, u, id)

UpdateFrame(before, after, u, id) ==
    /\ Len(after) = Len(before)
    /\ \A i \in 1..Len(before) :
          /\ Identity(after[i]) = Identity(before[i])
          /\ (before[i].user_id # u \/ before[i].transaction_id # id) => after[i] = before[i]

\* The dictionaries the edit form can pass to update_transaction_in_bq.
EditFormData ==
    {[transaction_date |-> date, exchange |-> exch, quantity |-> qty, price_jpy |-> price,
      fee_jpy |-> fee, total_jpy |-> qty * price] :
        date \in FormDates, exch \in EXCHANGES_ORDERED, qty \in Quantities,
        price \in FormPrices, fee \in FormFees}

\* C19: a delete and an update for the user u and the transaction id `id`
\* leave every record of another user and every record with another id as
\* it is, and an update leaves the transaction id, user id, coin id, coin
\* name and kind of the record it changes as they are.  This holds of the
\* steps the session takes, and of the two functions called on the stored
\* table for any user and any id, an id of another user's record included.
C19_OtherRecordsUnchanged ==
    [][/\ \A u \in Actors :
             /\ \A id \in 1..MaxTransactions :
                   DeleteTransaction(u, id) => DeleteFrame(transactions, transactions', u, id)
             /\ \A date \in FormDates, exch \in EXCHANGES_ORDERED, qty \in Quantities, price \in FormPrices, fee \in FormFees :
                   EditSave(u, date, exch, qty, price, fee) =>
                       UpdateFrame(transactions, transactions', u, Val(session[u].editing_transaction_id))
       /\ \A u \in Users, id \in 0..MaxTransactions :
             /\ DeleteFrame(transactions, delete_transaction_from_bq(transactions, u, id), u, id)
             /\ \A updated_data \in EditFormData :
                   UpdateFrame(transactions, update_transaction_in_bq(transactions, u, id, updated_data), u, id)]_vars

\* A record of the session's user was deleted while a record of another
\* user and another record of the same user are stored.
C19_Witness ==
    /\ last.op = "delete"
    /\ \E i, j \in 1..Len(transactions) :
          /\ transactions[i].user_id # last.user
          /\ transactions[j].user_id = last.user
          /\ transactions[j].transaction_id # last.row.transaction_id

(***************************************************************************)
(* C11: a statement the store does not carry out.                          *)
(***************************************************************************)
\* The step is a form or button of user u whose statement failed.
FailedStep(u, outcome) ==
    \/ \E type \in FORM_TYPES, exch \in FormExchanges, qty \in TypedQuantities, price \in FormPrices, fee \in FormFees :
          SubmitTransaction(u, Today, "bitcoin", type, exch, qty, price, fee, outcome)
    \/ \E exch \in EXCHANGES_ORDERED, qty \in TypedQuantities, price \in FormPrices, fee \in FormFees :
          SaveEdit(u, Today, exch, qty, price, fee, outcome)
    \/ \E id \in 1..MaxFormRows : PressDelete(u, id, outcome)

C18_QuantitiesAndKinds ==
    [][/\ \A i \in 1..Len(transactions') :
             /\ transactions'[i].quantity >= 0
             /\ transactions'[i].user_id \in Actors
                    => transactions'[i].transaction_type \in {"BUY", "SELL"}
       /\ \A u \in Actors, outcome \in StoreOutcomes, exch \in EXCHANGES_ORDERED, qty \in TypedQuantities, price \in FormPrices, fee \in FormFees :
             SaveEdit(u, Today, exch, qty, price, fee, outcome) =>
                 /\ Len(transactions') = Len(transactions)
                 /\ \A i \in 1..Len(transactions) :
                       transactions'[i].transaction_type = transactions[i].transaction_type]_vars

\* A sale was edited to the quantity 0 and to another exchange than the one
\* the add form stores.
C18_Witness ==
    \E i \in 1..Len(transactions) :
        /\ transactions[i].user_id = "alice"
        /\ transactions[i].transaction_type = "SELL"
        /\ transactions[i].quantity = 0
        /\ transactions[i].exchange \notin FormExchanges

(***************************************************************************)
(* C12: the transactions table does not exist.                             *)
(***************************************************************************)
\* C12: when the page is rendered while the transactions table does not
\* exist, the table is created, no error is reported, and the page is that
\* of an empty ledger: no history, an empty portfolio and totals of 0.
\* When the table exists it is not created again: the dataset and the
\* stored rows stay as they are.
C12_MissingTableIsEmptyLedger ==
    [][\A u \in Actors :
          RenderPortfolioPage(u) =>
              IF "transactions" \notin schema
              THEN /\ schema' = schema \cup {"transactions"}
                   /\ transactions' = <<>>
                   /\ notice'[u] # Some("error")
                   /\ page'[u].history = {}
                   /\ DOMAIN page'[u].portfolio = {}
                   /\ page'[u].total_asset_jpy = 0
                   /\ page'[u].total_change_jpy = 0
                   /\ page'[u].total_asset_btc[1] = 0
              ELSE /\ schema' = schema
                   /\ transactions' = transactions]_vars

\* Transactions were stored, the table was deleted, and the page rendered
\* after that created the table and shows an empty ledger.
C12_Witness ==
    /\ next_id > 1
    /\ notice["alice"] = Some("created")
    /\ "transactions" \in schema
    /\ transactions = <<>>
    /\ page["alice"].history = {}
    /\ page["alice"].total_asset_jpy = 0

\* The row the users table holds for the user id, if it holds one.
AccountOf(users, user_id) ==
    LET results == WhereUserId(users, user_id)
    IN  IF results = <<>> THEN None ELSE Some(results[1])

(***************************************************************************)
(* C13: the clients cannot be built.                                       *)
(***************************************************************************)
\* C13: when get_clients did not build the clients, every run of the
\* script stops at once with an error on the screen: the session is never
\* authenticated, neither the login page nor a portfolio is shown, no
\* statement is sent to a table, and the users table, the transactions
\* table, the dataset and the cookie stay as they are.
C13_NoClientsNoSession ==
    [][clients # "built" =>
          /\ ~visitor'.authenticated
          /\ visitor'.screen \in {"closed", "stopped"}
          /\ visitor'.screen = "stopped" => visitor'.error
          /\ (\E outcome \in {"done", "raised"} : OpenPage(outcome))
                 => visitor'.screen = "stopped"
          /\ queried' = {}
          /\ UNCHANGED <<accounts, transactions, schema, cookie>>]_vars

\* The page was opened with a valid token in the cookie, and stopped.
C13_Witness ==
    /\ clients = "none"
    /\ visitor.screen = "stopped"
    /\ visitor.error
    /\ cookie = Some(0)
    /\ Val(AccountOf(accounts, "alice")).auth_token = Some(0)
    /\ Val(Val(AccountOf(accounts, "alice")).token_expiry) > clock

(***************************************************************************)
(* C20: how a session becomes authenticated.                               *)
(***************************************************************************)
\* The token is stored for the user and has not expired.
TokenValidFor(user_id, token) ==
    /\ ~IsNone(AccountOf(accounts, user_id))
    /\ Val(AccountOf(accounts, user_id)).auth_token = Some(token)
    /\ ~IsNone(Val(AccountOf(accounts, user_id)).token_expiry)
    /\ Val(Val(AccountOf(accounts, user_id)).token_expiry) > clock

\* C20: a session that was not authenticated becomes authenticated as
\* user U only in a step in which the login form was submitted for U with
\* a password that verifies against the hash stored for U, or in a run
\* that found in the cookie a token stored for U whose expiry lies in the
\* future; an authenticated session stays one of the same user; and a run
\* of an unauthenticated session whose cookie holds a token that is not
\* valid for any user, or whose validation fails, removes the token from
\* the cookie and leaves the session unauthenticated.
C20_AuthenticatedOnlyByProof ==
    [][/\ (~visitor.authenticated /\ visitor'.authenticated) =>
             /\ ~IsNone(visitor'.user_id)
             /\ Val(visitor'.user_id) \in Users
             /\ LET U == Val(visitor'.user_id)
                IN  \/ \E password \in Passwords :
                          /\ Login(U, password)
                          /\ ~IsNone(AccountOf(accounts, U))
                          /\ Val(AccountOf(accounts, U)).password_hash = hash_password(password)
                    \/ /\ \E outcome \in {"done", "raised"} : OpenPage(outcome)
                       /\ ~IsNone(cookie)
                       /\ TokenValidFor(U, Val(cookie))
       /\ (visitor.authenticated /\ visitor'.authenticated) =>
             visitor'.user_id = visitor.user_id
       /\ \A outcome \in {"done", "raised"} :
             (/\ OpenPage(outcome)
              /\ clients = "built"
              /\ ~visitor.authenticated
              /\ ~IsNone(cookie)
              /\ outcome = "raised" \/ \A U \in Users : ~TokenValidFor(U, Val(cookie)))
                 => cookie' = None /\ ~visitor'.authenticated]_vars

\* The session is authenticated as alice by the token of an earlier login
\* (no token was generated since), 15 days before the token expires.
C20_Witness ==
    /\ visitor.authenticated
    /\ visitor.user_id = Some("alice")
    /\ visitor.screen = "portfolio"
    /\ cookie = Some(0)
    /\ next_token = 1
    /\ clock = 15

(***************************************************************************)
(* C21: logout.                                                            *)
(***************************************************************************)
\* The tokens issued so far: token 0 of the login before the first state,
\* and those secrets.token_hex returned since.
IssuedTokens == 0..(next_token - 1)

\* validate_token(token) returns a user id in a session whose clients
\* were built and whose query ends well.
Validates(token, users, now) ==
    validate_token("built", token, users, now, "done") # {None}

\* The logout button was pressed in this step: the session was logged in
\* and shows the login page now.
LoggedOut ==
    /\ visitor.authenticated
    /\ ~visitor'.authenticated

\* C21: the step of the logout button leaves the row of the user who
\* logged out without token and without expiry, the cookie without
\* auth_token and the session unauthenticated with no user id, and after
\* it no token issued so far validates as that user; and in every step a
\* token issued before the step that does not validate before it does not
\* validate after it, whatever session presents it (a later login stores a
\* token that was never issued before).
C21_LoggedOutTokenNeverValidates ==
    [][/\ LoggedOut =>
             LET U == Val(visitor.user_id)
             IN  /\ ~IsNone(AccountOf(accounts', U))
                 /\ Val(AccountOf(accounts', U)).auth_token = None
                 /\ Val(AccountOf(accounts', U)).token_expiry = None
                 /\ cookie' = None
                 /\ visitor'.user_id = None
                 /\ visitor'.screen = "auth"
                 /\ \A token \in IssuedTokens :
                       Some(U) \notin validate_token("built", token, accounts', clock', "done")
       /\ \A token \in IssuedTokens :
             ~Validates(token, accounts, clock) => ~Validates(token, accounts', clock')]_vars

\* alice, the only user registered, was issued a token by a login and has
\* logged out: her row holds no token, the cookie is gone and the login
\* page is shown.
C21_Witness ==
    /\ AccountOf(accounts, "bob") = None
    /\ next_token > 1
    /\ Val(AccountOf(accounts, "alice")).auth_token = None
    /\ Val(AccountOf(accounts, "alice")).token_expiry = None
    /\ cookie = None
    /\ ~visitor.authenticated
    /\ visitor.screen = "auth"

(***************************************************************************)
(* C22: one record per user id.                                            *)
(***************************************************************************)
\* C22: whatever the order in which the statements of the sessions that
\* register reach the store, the users table holds at most one row per
\* user id.
C22_OneRecordPerUserId ==
    \A user_id \in Users : Len(WhereUserId(accounts, user_id)) <= 1

(***************************************************************************)
(* C23: the summaries by coin and by exchange.                             *)
(***************************************************************************)
RECURSIVE FrameSum(_, _)
\* The sum of a column over the rows of a data frame.
FrameSum(frame, column) ==
    IF frame = <<>> THEN 0 ELSE Head(frame)[column] + FrameSum(Tail(frame), column)

RECURSIVE HeldOver(_, _, _)
\* The quantity of the coin the portfolio holds over the exchanges.
HeldOver(portfolio, coin_id, exchanges) ==
    IF exchanges = {} THEN 0
    ELSE LET e == CHOOSE x \in exchanges : TRUE
         IN  ProjectedQuantity(portfolio, <<coin_id, e>>)
             + HeldOver(portfolio, coin_id, exchanges \ {e})

\* C23: on every page rendered, the values of the rows of
\* summarize_portfolio_by_coin add up to the total_asset_jpy that
\* calculate_portfolio returned, and so do the values of the rows of
\* summarize_portfolio_by_exchange; the summary by coin has one row for
\* each coin the portfolio holds and no other, and the quantity of the row
\* is the sum of the quantities the portfolio holds of the coin over all
\* exchanges.  It holds for every order the sort of the rows may give.
C23_SummariesAddUp ==
    \A u \in Users :
        /\ \A summary \in page[u].summary_df :
              /\ FrameSum(summary, "value_jpy") = page[u].total_asset_jpy
              /\ {summary[i].coin_id : i \in 1..Len(summary)}
                     = {k[1] : k \in DOMAIN page[u].portfolio}
              /\ \A i \in 1..Len(summary) :
                    summary[i].quantity
                        = HeldOver(page[u].portfolio, summary[i].coin_id, EXCHANGES_ORDERED)
        /\ \A summary \in page[u].summary_exchange_df :
              FrameSum(summary, "value_jpy") = page[u].total_asset_jpy

\* The page shows bitcoin held at two exchanges and ethereum at one of
\* them: two rows by coin and two rows by exchange, for three holdings.
C23_Witness ==
    /\ DOMAIN page["alice"].portfolio = ProjectedKeys
    /\ page["alice"].total_asset_jpy > 0
    /\ \E summary \in page["alice"].summary_df :
          /\ Len(summary) = 2
          /\ summary[1].coin_id = "bitcoin"
          /\ summary[1].accounts = 2
    /\ \E summary \in page["alice"].summary_exchange_df : Len(summary) = 2

====
